---------------------------- MODULE Spec2Model ----------------------------
(***************************************************************************)
(* The C64 chat bridge: the polled outbound mailbox (check_for_messages),  *)
(* the sender (send_message_to_c64), the generation client's retry loop    *)
(* (send_message) and the conversation history (add_message_to_history).   *)
(*                                                                         *)
(* Time is counted in ticks of 0.1 s.  The poller only ever uses the       *)
(* difference current_time - last_change_time, so the model keeps that     *)
(* difference (last_change_age), saturated at DEBOUNCE_TIME.               *)
(***************************************************************************)
EXTENDS Integers, Sequences, FiniteSets, TLC

\* ------------------------------------------------------------------ bounds
MaxLen    == 2     \* longest chunk payload the modelled device writes
MaxChunks == 2     \* most chunks in one logical message of the device
MaxMsgs   == 2     \* logical messages the device writes in one run
MaxAccum  == 4     \* longest accumulator the modelled runs build up
MaxFaults == 2     \* transport errors raised in one run
MaxFlips  == 2     \* rewrites of the length byte by a glitching device
MaxRequests == 5   \* requests one send_message call is followed for
MaxTurns  == 12    \* turns appended to the history in one run
MaxPieces == 4     \* most pieces a modelled generation response is built from
MaxText   == 2     \* longest short text handed to the sender or the codec
MaxLines  == 2     \* most lines of one streamed response

\* ------------------------------------------------- constants of the source
INCOMING_MSG_ADDR    == 49152
OUTGOING_MSG_ADDR    == 49408
MESSAGE_STATUS_ADDR  == 49664
THINKING_MSG_ADDR    == 50176
THINKING_STATUS_ADDR == 50432

CHECK_INTERVAL         == 5    \* 0.5 s
TIMEOUT_BETWEEN_CHECKS == 2    \* 0.2 s
DEBOUNCE_TIME          == 5    \* 0.5 s
STARTUP_CYCLES         == 10

NONE == 0
MORE == 1
LAST == 2

JUNK  == 255       \* chr(255), the character check_for_messages strips
SLASH == 47        \* '/'

max_retries            == 3
initial_retry_delay_ms == 1000
MAX_HISTORY_LENGTH     == 10

\* ------------------------------------------------------------------- state
VARIABLES
    mem,               \* device memory behind the monitor: address -> byte
    startup_counter,   \* check_for_messages locals
    full_message,
    last_change_age,   \* current_time - last_change_time, saturated
    last_data_length,
    pollPc,            \* "poll": top of the loop; "reset": before line 525
    sleepLeft,         \* ticks left of the poller's time.sleep
    devPhase,          \* device: "idle" | "ready" | "len" | "stat" | "wait"
    devChunk,          \* payload of the chunk the device is writing
    devFinal,          \* TRUE when that chunk is the last of its message
    devMsg,            \* payloads of the chunks of the device's current message
    devCount,          \* logical messages the device has begun
    hdrAge,            \* ticks since the last store to length or status byte
    lenAge,            \* ticks since the last store to the length byte
    lastSeal,          \* latest seal: [text, sent, final, msg] (msg = 0: none)
    seals,             \* device message number -> times the poller sealed it
    threads,           \* device message number -> process_user_message threads
    obsLen,            \* length byte observed by the latest poll (-1: none)
    pendingReset,      \* a message was dispatched, status not yet written NONE
    faults,            \* transport errors raised so far
    flips,             \* length-byte rewrites by the glitching device so far
    exch,              \* process_user_message threads: [pc, chan]
    client,            \* "claude" (ClaudeApiClient) or "llama" (LlamaCppClient)
    retry_count,       \* send_message locals
    delay_ms,
    clientPc,          \* "call" | "returned" | "raised"
    replies,           \* what the service did on each request so far
    sleeps,            \* the backoff sleeps taken so far, in ms
    conversation_history,
    appended,          \* every turn appended since the last reset, in order
    codec,             \* one send_message_to_c64 framing and its decoding:
                       \*   [pc, text, message, chunk, decoded]
    think,             \* one extract_thinking call: [pc, response_text,
                       \*   thinking_fragments, cleaned_response, thinking_text]
    exchange,          \* one process_user_message call and its sends
    stream,            \* one LlamaCppClient.send_message call, line by line
    adders,            \* two threads inside add_message_to_history
    notice,            \* one sealed message: its send_processing_message
                       \*   thread and its exchange, on the response mailbox
    running,           \* the module's flag `running`
    session            \* the monitor session as the poller left it:
                       \*   "open" or "closed"

pollerVars == <<startup_counter, full_message, last_change_age,
                last_data_length, pollPc, sleepLeft, session>>
deviceVars == <<devPhase, devChunk, devFinal, devMsg, devCount>>
sealVars   == <<lastSeal, seals, threads>>
ghostVars  == <<sealVars, obsLen, pendingReset>>
ageVars == <<hdrAge, lenAge>>
budgetVars == <<faults, flips>>
clientVars == <<client, retry_count, delay_ms, clientPc, replies, sleeps>>
historyVars == <<conversation_history, appended>>
bridgeVars == <<mem, pollerVars, deviceVars, ageVars, ghostVars, budgetVars, exch,
                running>>
pureVars == <<codec, think, stream, notice, adders>>
elsewhere == <<clientVars, historyVars, pureVars, exchange>>
vars == <<bridgeVars, clientVars, historyVars, pureVars, exchange>>

\* ----------------------------------------------------------------- memory
Region(base) == base .. (base + MaxLen)

Addrs == Region(INCOMING_MSG_ADDR) \cup Region(OUTGOING_MSG_ADDR)
         \cup Region(THINKING_MSG_ADDR)
         \cup {MESSAGE_STATUS_ADDR, THINKING_STATUS_ADDR}

\* vice_monitor.read_memory(start, end).data
read_memory(m, start, end) == [i \in 1..(end - start) |-> m[start + i - 1]]

\* vice_monitor.write_memory(addr, bytes)
write_memory(m, addr, bytes) ==
    [a \in DOMAIN m |->
        IF a >= addr /\ a < addr + Len(bytes) THEN bytes[a - addr + 1] ELSE m[a]]

Min(a, b) == IF a < b THEN a ELSE b

\* "".join(chr(b) for b in data[:length]); a character is its code point
decode(data, length) == SubSeq(data, 1, Min(length, Len(data)))

\* full_message.replace(chr(255), '')
strip_junk(s) == SelectSeq(s, LAMBDA c : c # JUNK)

\* no message counts as a command
startswith_slash_never(s) == FALSE

\* full_message.startswith('/')
startswith_slash(s) == Len(s) > 0 /\ s[1] = SLASH

RECURSIVE Concat(_)
Concat(ss) == IF ss = <<>> THEN <<>> ELSE Head(ss) \o Concat(Tail(ss))

\* chunk payloads of the modelled device: "A", "/", and chr(255) followed by 'A's
Payloads == {<<65>>, <<SLASH>>}
            \cup {[i \in 1..n |-> IF i = 1 THEN JUNK ELSE 65] : n \in 2..MaxLen}

\* ----------------------------------------------------------------- Init
BridgeInit ==
    /\ mem = [a \in Addrs |-> 0]
    /\ startup_counter = STARTUP_CYCLES
    /\ full_message = <<>>
    /\ last_change_age = DEBOUNCE_TIME
    /\ last_data_length = 0
    /\ pollPc = "poll"
    /\ sleepLeft = 0
    /\ devPhase = "idle"
    /\ devChunk = <<>>
    /\ devFinal = FALSE
    /\ devMsg = <<>>
    /\ devCount = 0
    /\ hdrAge = DEBOUNCE_TIME
    /\ lenAge = DEBOUNCE_TIME
    /\ lastSeal = [text |-> <<>>, sent |-> <<>>, final |-> FALSE, msg |-> 0]
    /\ seals = [i \in 1..MaxMsgs |-> 0]
    /\ threads = [i \in 1..MaxMsgs |-> 0]
    /\ obsLen = -1
    /\ pendingReset = FALSE
    /\ faults = 0
    /\ flips = 0
    /\ exch = <<>>
    /\ running = TRUE
    /\ session = "closed"

\* a send_message call about to issue its first request
ClientAt(c) ==
    /\ client = c
    /\ retry_count = 0
    /\ delay_ms = initial_retry_delay_ms
    /\ clientPc = "call"
    /\ replies = <<>>
    /\ sleeps = <<>>

HistoryInit ==
    /\ conversation_history = <<>>
    /\ appended = <<>>

\* no framing, extraction or exchange under way
CodecIdle == codec = [pc |-> "idle"]
ThinkIdle == think = [pc |-> "idle"]
NoticeIdle == notice = [pc |-> "idle"] /\ adders = <<>>
ExchangeIdle == exchange = [pc |-> "idle"] /\ stream = [pc |-> "idle"] /\ NoticeIdle

Init == /\ BridgeInit /\ ClientAt("claude") /\ HistoryInit
        /\ CodecIdle /\ ThinkIdle /\ ExchangeIdle

\* ------------------------------------------------------------------ time
Sat(n) == Min(n, DEBOUNCE_TIME)

\* a step in which no transport call raises
NoFault == UNCHANGED <<budgetVars, running, elsewhere>>

\* a step that starts no thread
NoThread == UNCHANGED exch

\* a step in which one transport call raises
Raise == /\ faults < MaxFaults /\ faults' = faults + 1
         /\ UNCHANGED <<flips, running, elsewhere>>

\* 0.1 s passes while the poller sleeps; it runs its iteration when the sleep
\* ends.  A device that has stored the length byte of a chunk stores its
\* status byte before a debounce window has gone by.
Tick ==
    /\ NoThread
    /\ NoFault
    /\ devPhase = "len" => lenAge < DEBOUNCE_TIME - 1
    /\ sleepLeft > 0
    /\ sleepLeft' = sleepLeft - 1
    /\ last_change_age' = Sat(last_change_age + 1)
    /\ hdrAge' = Sat(hdrAge + 1)
    /\ lenAge' = Sat(lenAge + 1)
    /\ UNCHANGED <<mem, startup_counter, full_message, last_data_length,
                   pollPc, session, deviceVars, ghostVars>>

\* ---------------------------------------------------------------- device
\* The device picks the next chunk of the message it is writing, or the
\* first chunk of a new message, once the previous chunk is acknowledged.
DevContinues == devCount > 0 /\ ~devFinal

DevChoose ==
    /\ NoThread
    /\ NoFault
    /\ devPhase = "idle"
    /\ mem[OUTGOING_MSG_ADDR] = 0
    /\ \E p \in Payloads, fin \in BOOLEAN :
         /\ devChunk' = p
         /\ devFinal' = fin
         /\ IF DevContinues
               THEN /\ (Len(devMsg) >= MaxChunks - 1 => fin)
                    /\ devMsg' = Append(devMsg, p)
                    /\ UNCHANGED devCount
               ELSE /\ devCount < MaxMsgs
                    /\ (MaxChunks = 1 => fin)
                    /\ devMsg' = <<p>>
                    /\ devCount' = devCount + 1
    /\ devPhase' = "ready"
    /\ UNCHANGED <<mem, pollerVars, ageVars, ghostVars>>

DevStatus == IF devFinal THEN LAST ELSE MORE

\* store of the payload and the length byte
DevStoreLength ==
    /\ NoThread
    /\ NoFault
    /\ devPhase \in {"ready", "stat"}
    /\ mem' = write_memory(mem, OUTGOING_MSG_ADDR, <<Len(devChunk)>> \o devChunk)
    /\ devPhase' = IF devPhase = "ready" THEN "len" ELSE "wait"
    /\ hdrAge' = 0
    /\ lenAge' = 0
    /\ UNCHANGED <<pollerVars, devChunk, devFinal, devMsg, devCount, ghostVars>>

\* store of the status byte
DevStoreStatus ==
    /\ NoThread
    /\ NoFault
    /\ devPhase \in {"ready", "len"}
    /\ mem' = write_memory(mem, MESSAGE_STATUS_ADDR, <<DevStatus>>)
    /\ devPhase' = IF devPhase = "ready" THEN "stat" ELSE "wait"
    /\ hdrAge' = 0
    /\ UNCHANGED lenAge
    /\ UNCHANGED <<pollerVars, devChunk, devFinal, devMsg, devCount, ghostVars>>

\* the device sees its chunk acknowledged (length byte zeroed)
DevAcked ==
    /\ NoThread
    /\ NoFault
    /\ devPhase = "wait"
    /\ mem[OUTGOING_MSG_ADDR] = 0
    /\ devPhase' = "idle"
    /\ UNCHANGED <<mem, pollerVars, devChunk, devFinal, devMsg, devCount, ageVars, ghostVars>>


\* ---------------------------------------------------------------- poller
\* check_for_messages, one loop iteration per action.  length and status are
\* the bytes the iteration reads at lines 446 and 454.
length == mem[OUTGOING_MSG_ADDR]
status == mem[MESSAGE_STATUS_ADDR]

\* the loop goes round whatever the flag says
AtPoll_whatever_flag == pollPc = "poll" /\ sleepLeft = 0

\* line 434: while running, tested when the sleep of the iteration is over
AtPoll == pollPc = "poll" /\ sleepLeft = 0 /\ running

Observe(len) == obsLen' = len

\* line 458 without its comparison of the length with last_data_length
header_changed_ignoring_length == status # NONE /\ status # LAST

\* line 458: the header counts as changed
header_changed == length # last_data_length \/ (status # NONE /\ status # LAST)

\* line 468: not yet quiescent for the debounce window
too_early == last_change_age < DEBOUNCE_TIME

\* lines 476-489: the accumulator after the chunk is read
chunk_read == decode(read_memory(mem, OUTGOING_MSG_ADDR + 1,
                                 OUTGOING_MSG_ADDR + length + 1), length)

\* the last iteration of the grace period already polls
in_startup_but_last(counter) == counter > 1

\* line 437: if startup_counter > 0
in_startup(counter) == counter > 0

\* lines 437-440
PollStartup ==
    /\ NoThread
    /\ NoFault
    /\ AtPoll
    /\ in_startup(startup_counter)
    /\ startup_counter' = startup_counter - 1
    /\ sleepLeft' = CHECK_INTERVAL
    /\ UNCHANGED <<mem, full_message, last_change_age, last_data_length, pollPc,
                   session, deviceVars, ageVars, sealVars, obsLen, pendingReset>>

\* Each branch of the iteration ends in monitor_exit and a sleep of
\* CHECK_INTERVAL; when that monitor_exit raises, the handler of line 540
\* sleeps TIMEOUT_BETWEEN_CHECKS instead.  nap is the sleep taken.

\* vice_monitor.monitor_exit() returned: the session is closed
Exited == session' = "closed"

\* the handler's monitor_exit, lines 542-545, after a raise that left the
\* session as `was`: it closes the session, or raises and is passed over
HandlerExit(was) == session' \in {"closed", was}

\* lines 528-538: nothing in the mailbox
Empty(nap) ==
    /\ AtPoll
    /\ ~in_startup(startup_counter)
    /\ ~(length > 0 /\ length <= 255)
    /\ IF last_data_length > 0
          THEN last_data_length' = 0 /\ last_change_age' = DEBOUNCE_TIME
          ELSE UNCHANGED <<last_data_length, last_change_age>>
    /\ sleepLeft' = nap
    /\ Observe(length)
    /\ UNCHANGED <<mem, startup_counter, full_message, pollPc,
                   deviceVars, ageVars, sealVars, pendingReset>>

\* lines 458-465: restart the debounce timer
Restart(nap) ==
    /\ AtPoll
    /\ ~in_startup(startup_counter)
    /\ length > 0 /\ length <= 255
    /\ header_changed
    /\ last_change_age' = 0
    /\ last_data_length' = length
    /\ sleepLeft' = nap
    /\ Observe(length)
    /\ UNCHANGED <<mem, startup_counter, full_message, pollPc,
                   deviceVars, ageVars, sealVars, pendingReset>>

\* lines 468-472: wait longer
Wait(nap) ==
    /\ AtPoll
    /\ ~in_startup(startup_counter)
    /\ length > 0 /\ length <= 255
    /\ ~header_changed
    /\ too_early
    /\ sleepLeft' = nap
    /\ Observe(length)
    /\ UNCHANGED <<mem, startup_counter, full_message, last_change_age,
                   last_data_length, pollPc, deviceVars, ageVars, sealVars,
                   pendingReset>>

Stable ==
    /\ AtPoll
    /\ ~in_startup(startup_counter)
    /\ length > 0 /\ length <= 255
    /\ ~header_changed
    /\ ~too_early

PollEmpty == NoFault /\ NoThread /\ Empty(CHECK_INTERVAL) /\ Exited
PollRestart == NoFault /\ NoThread /\ Restart(CHECK_INTERVAL) /\ Exited
PollWait == NoFault /\ NoThread /\ Wait(CHECK_INTERVAL) /\ Exited

\* a message is dispatched only when no earlier exchange is under way
start_thread_when_free(ts) ==
    IF \A i \in DOMAIN ts : ts[i].pc = "done"
      THEN Append(ts, [pc |-> "generate", chan |-> "resp", open |-> FALSE])
      ELSE ts

\* lines 510-515: threading.Thread(target=process_user_message, ...).start()
start_thread(ts) == Append(ts, [pc |-> "generate", chan |-> "resp", open |-> FALSE])

\* lines 474-522 (and 535-538 for a chunk that is not the last)
\* The thread of send_processing_message started at line 504 sends nothing
\* for a message of at most 50 characters (line 560), as every message here is.
PollRead ==
    /\ NoFault
    /\ Stable
    /\ mem' = write_memory(mem, OUTGOING_MSG_ADDR, <<0>>)
    /\ hdrAge' = 0
    /\ lenAge' = 0
    /\ LET text == strip_junk(full_message \o chunk_read) IN
       IF status = NONE \/ status = LAST
          THEN /\ lastSeal' = [text |-> text, sent |-> Concat(devMsg),
                                final |-> devFinal, msg |-> devCount]
               /\ seals' = [seals EXCEPT ![devCount] = @ + 1]
               /\ IF startswith_slash(text)
                     THEN UNCHANGED <<threads, exch>>
                     ELSE /\ threads' = [threads EXCEPT ![devCount] = @ + 1]
                          /\ exch' = start_thread(exch)
               /\ full_message' = <<>>
               /\ last_data_length' = 0
               /\ last_change_age' = DEBOUNCE_TIME
               /\ pollPc' = "reset"
               /\ pendingReset' = TRUE
               /\ UNCHANGED sleepLeft
          ELSE /\ full_message' = text
               /\ sleepLeft' = CHECK_INTERVAL
               /\ UNCHANGED <<sealVars, last_data_length, last_change_age, pollPc,
                              pendingReset, exch>>
    /\ Observe(length)
    /\ Exited
    /\ UNCHANGED <<startup_counter, deviceVars>>

\* lines 524-538: reset the status byte on a fresh connection
ResetStatus(nap) ==
    /\ pollPc = "reset"
    /\ mem' = write_memory(mem, MESSAGE_STATUS_ADDR, <<NONE>>)
    /\ hdrAge' = 0
    /\ pollPc' = "poll"
    /\ sleepLeft' = nap
    /\ pendingReset' = FALSE
    /\ UNCHANGED <<startup_counter, full_message, last_change_age, lenAge,
                   last_data_length, deviceVars, sealVars, obsLen>>

PollResetStatus == NoFault /\ NoThread /\ ResetStatus(CHECK_INTERVAL) /\ Exited

\* ------------------------------------------------------ transport errors
\* Any vice_monitor call may raise; the handler of lines 540-548 tries
\* monitor_exit and sleeps.

\* the handler sleeping as long as an iteration without error
except_sleep_interval == CHECK_INTERVAL

\* line 548: time.sleep(TIMEOUT_BETWEEN_CHECKS), in ticks
except_sleep == TIMEOUT_BETWEEN_CHECKS

\* get_socket (443) or the read of the length byte (446) raises
FailConnect ==
    /\ NoThread
    /\ Raise
    /\ AtPoll
    /\ ~in_startup(startup_counter)
    /\ sleepLeft' = except_sleep
    /\ \E was \in {session, "open"} : HandlerExit(was)
    /\ UNCHANGED <<mem, startup_counter, full_message, last_change_age,
                   last_data_length, pollPc, deviceVars, ageVars, sealVars,
                   obsLen, pendingReset>>

\* the read of the status byte (454) raises
FailStatusRead ==
    /\ NoThread
    /\ Raise
    /\ AtPoll
    /\ ~in_startup(startup_counter)
    /\ length > 0 /\ length <= 255
    /\ sleepLeft' = except_sleep
    /\ HandlerExit("open")
    /\ Observe(length)
    /\ UNCHANGED <<mem, startup_counter, full_message, last_change_age,
                   last_data_length, pollPc, deviceVars, ageVars, sealVars,
                   pendingReset>>

\* monitor_exit raises at line 535, 463 or 470
FailEmptyExit == Raise /\ NoThread /\ Empty(except_sleep) /\ HandlerExit("open")
FailRestartExit ==
    Raise /\ NoThread /\ Restart(except_sleep) /\ HandlerExit("open")
FailWaitExit == Raise /\ NoThread /\ Wait(except_sleep) /\ HandlerExit("open")

\* the read of the payload (476) raises
FailPayloadRead ==
    /\ NoThread
    /\ Raise
    /\ Stable
    /\ sleepLeft' = except_sleep
    /\ HandlerExit("open")
    /\ Observe(length)
    /\ UNCHANGED <<mem, startup_counter, full_message, last_change_age,
                   last_data_length, pollPc, deviceVars, ageVars, sealVars,
                   pendingReset>>

\* the write that zeroes the length byte (486) raises: the chunk is already
\* appended (483) and stays in the accumulator
FailAck ==
    /\ NoThread
    /\ Raise
    /\ Stable
    /\ Len(full_message) + length <= MaxAccum
    /\ full_message' = full_message \o chunk_read
    /\ sleepLeft' = except_sleep
    /\ HandlerExit("open")
    /\ Observe(length)
    /\ UNCHANGED <<mem, startup_counter, last_change_age, last_data_length,
                   pollPc, deviceVars, ageVars, sealVars, pendingReset>>

\* monitor_exit (497) raises after the last chunk was read and acknowledged:
\* no thread is started and the accumulator is not cleared
FailSealExit ==
    /\ NoThread
    /\ Raise
    /\ Stable
    /\ status = NONE \/ status = LAST
    /\ mem' = write_memory(mem, OUTGOING_MSG_ADDR, <<0>>)
    /\ hdrAge' = 0
    /\ lenAge' = 0
    /\ full_message' = strip_junk(full_message \o chunk_read)
    /\ sleepLeft' = except_sleep
    /\ HandlerExit("open")
    /\ Observe(length)
    /\ UNCHANGED <<startup_counter, last_change_age, last_data_length,
                   pollPc, deviceVars, sealVars, pendingReset>>

\* get_socket (525) or the write of the status byte (526) raises
FailResetStatus ==
    /\ NoThread
    /\ Raise
    /\ pollPc = "reset"
    /\ pollPc' = "poll"
    /\ sleepLeft' = except_sleep
    /\ \E was \in {"closed", "open"} : HandlerExit(was)
    /\ UNCHANGED <<mem, startup_counter, full_message, last_change_age,
                   last_data_length, deviceVars, ageVars, sealVars,
                   obsLen, pendingReset>>

\* monitor_exit (527 or 535) raises after the status byte was reset
FailFinalExit == Raise /\ NoThread /\ ResetStatus(except_sleep) /\ HandlerExit("open")

\* ------------------------------------------------------ a glitching device
\* The device rewrites the length byte of a chunk it has not seen
\* acknowledged (a header that changes during the debounce window).
DevFlip ==
    /\ NoThread
    /\ devPhase = "wait"
    /\ flips < MaxFlips
    /\ flips' = flips + 1
    /\ UNCHANGED <<faults, running, elsewhere>>
    /\ \E l \in 0..Len(devChunk) :
         /\ l # mem[OUTGOING_MSG_ADDR]
         /\ mem' = write_memory(mem, OUTGOING_MSG_ADDR, <<l>>)
    /\ hdrAge' = 0
    /\ lenAge' = 0
    /\ UNCHANGED <<pollerVars, deviceVars, ghostVars>>

\* the glitching device is observed for one logical message
TornChoose == DevChoose /\ devCount' <= 1

PollerStep == PollStartup \/ PollEmpty \/ PollRestart
              \/ PollRead \/ PollResetStatus

DeviceStep == DevChoose \/ DevStoreLength \/ DevStoreStatus \/ DevAcked

\* ------------------------------------------------- poller and device only
\* Without transport errors every sleep lasts CHECK_INTERVAL = DEBOUNCE_TIME,
\* so the branch of line 468 (PollWait) cannot be taken.
NextQuiet == Tick \/ DevChoose \/ DevStoreLength \/ DevStoreStatus \/ DevAcked
             \/ PollStartup \/ PollEmpty \/ PollRestart
             \/ PollRead \/ PollResetStatus

SpecQuiet == Init /\ [][NextQuiet]_vars

FairQuiet == SpecQuiet /\ WF_vars(Tick) /\ WF_vars(PollerStep) /\ WF_vars(DeviceStep)

\* ----------------------------------------- poller with transport errors
Next == NextQuiet \/ PollWait
        \/ FailConnect \/ FailStatusRead \/ FailEmptyExit \/ FailRestartExit
        \/ FailWaitExit \/ FailPayloadRead \/ FailAck \/ FailSealExit
        \/ FailResetStatus \/ FailFinalExit

Spec == Init /\ [][Next]_vars

\* --------------------------------------- the same with a glitching device
NextTorn == Tick \/ TornChoose \/ DevStoreLength \/ DevStoreStatus \/ DevAcked
            \/ DevFlip
            \/ PollStartup \/ PollEmpty \/ PollRestart \/ PollWait
            \/ PollRead \/ PollResetStatus
            \/ FailConnect \/ FailStatusRead \/ FailEmptyExit \/ FailRestartExit
            \/ FailWaitExit \/ FailPayloadRead \/ FailAck \/ FailSealExit
            \/ FailResetStatus \/ FailFinalExit

SpecTorn == Init /\ [][NextTorn]_vars



\* ---------------------------------------------------------------- sender
SEND_LIMIT == 240

\* text handed to send_message_to_c64 on each channel (already upper-case)
ChannelText(chan) == IF chan = "think" THEN <<84>> ELSE <<79, 75>>

\* send_message_to_c64(message, address, status_addr): the default arguments
\* are the response channel, send_thinking_to_c64 passes the thinking ones
ChannelAddr(chan)   == IF chan = "think" THEN THINKING_MSG_ADDR
                                         ELSE INCOMING_MSG_ADDR
ChannelStatus(chan) == IF chan = "think" THEN THINKING_STATUS_ADDR
                                         ELSE MESSAGE_STATUS_ADDR

\* the byte of a character masked to seven bits
message_bytes_seven_bit(message) ==
    LET m == SubSeq(message, 1, Min(Len(message), SEND_LIMIT))
    IN  <<Len(m)>> \o [i \in 1..Len(m) |-> m[i] % 128]

\* no limit on the message length
message_bytes_untruncated(message) ==
    <<Len(message) % 256>> \o [i \in 1..Len(message) |-> message[i] % 256]

\* lines 257-276: the length byte and one byte per character
message_bytes(message) ==
    LET m == SubSeq(message, 1, Min(Len(message), SEND_LIMIT))
    IN  <<Len(m)>> \o [i \in 1..Len(m) |-> m[i] % 256]

SenderFrame == UNCHANGED <<pollerVars, deviceVars, lenAge, ghostVars, budgetVars,
                           running, elsewhere>>

\* process_user_message: the generation client has answered (or raised);
\* thinking text, when there is some, is sent first
ExGenerate(i) ==
    /\ exch[i].pc = "generate"
    /\ \E thinking \in BOOLEAN :
         exch' = [exch EXCEPT ![i] = [pc |-> "clear", open |-> FALSE,
                       chan |-> IF thinking THEN "think" ELSE "resp"]]
    /\ UNCHANGED <<mem, hdrAge>>
    /\ SenderFrame

\* lines 262-265: get_socket, then clear the channel's length byte
SendClear(i) ==
    /\ exch[i].pc = "clear"
    /\ mem' = write_memory(mem, ChannelAddr(exch[i].chan), <<0>>)
    /\ exch' = [exch EXCEPT ![i].pc = "write", ![i].open = TRUE]
    /\ UNCHANGED hdrAge
    /\ SenderFrame

\* the length byte goes out first, the payload in a later write
write_chunk_length_first(m, address, bytes) ==
    write_memory(m, address, <<bytes[1]>>)

\* line 279: vice_monitor.write_memory(address, bytes(message_bytes)), the
\* length byte and the payload in one write
write_chunk(m, address, bytes) == write_memory(m, address, bytes)

\* lines 270-279: the whole chunk in one write
SendWrite(i) ==
    /\ exch[i].pc = "write"
    /\ mem' = write_chunk(mem, ChannelAddr(exch[i].chan),
                          message_bytes(ChannelText(exch[i].chan)))
    /\ exch' = [exch EXCEPT ![i].pc = "status"]
    /\ UNCHANGED hdrAge
    /\ SenderFrame

\* lines 282-283: reset the status byte and exit; after the thinking text
\* the answer follows (line 343)
SendStatus(i) ==
    /\ exch[i].pc = "status"
    /\ mem' = write_memory(mem, ChannelStatus(exch[i].chan), <<NONE>>)
    /\ hdrAge' = IF ChannelStatus(exch[i].chan) = MESSAGE_STATUS_ADDR
                    THEN 0 ELSE hdrAge
    /\ exch' = [exch EXCEPT ![i] =
                   IF @.chan = "think"
                     THEN [pc |-> "clear", chan |-> "resp", open |-> FALSE]
                     ELSE [pc |-> "done", chan |-> "resp", open |-> FALSE]]
    /\ SenderFrame

Generate    == \E i \in 1..Len(exch) : ExGenerate(i)
ClearChunk  == \E i \in 1..Len(exch) : SendClear(i)
WriteChunk  == \E i \in 1..Len(exch) : SendWrite(i)
WriteStatus == \E i \in 1..Len(exch) : SendStatus(i)

SenderStep == ClearChunk \/ WriteChunk \/ WriteStatus

\* ------------------------------------- poller, device and exchange threads
NextSend == Tick \/ DevChoose \/ DevStoreLength \/ DevStoreStatus \/ DevAcked
            \/ PollStartup \/ PollEmpty \/ PollRestart
            \/ PollRead \/ PollResetStatus
            \/ Generate \/ ClearChunk \/ WriteChunk \/ WriteStatus

SpecSend == Init /\ [][NextSend]_vars

\* ------------------------------------------------------------- shutdown
StopFrame == UNCHANGED <<mem, deviceVars, ageVars, ghostVars, budgetVars, exch,
                         elsewhere>>

\* main, line 677 (llama line 844): finally: running = False
Shutdown ==
    /\ running
    /\ running' = FALSE
    /\ UNCHANGED pollerVars
    /\ StopFrame

\* line 434 (llama line 601): the test of while running fails and
\* check_for_messages returns
PollExit ==
    /\ pollPc = "poll"
    /\ sleepLeft = 0
    /\ ~running
    /\ pollPc' = "stopped"
    /\ UNCHANGED <<startup_counter, full_message, last_change_age,
                   last_data_length, sleepLeft, session, running>>
    /\ StopFrame

NextStop == NextSend \/ Shutdown \/ PollExit

SpecStop == Init /\ [][NextStop]_vars



\* ------------------------------------------------------ generation client
\* What the service does on one request: a response with an HTTP status
\* (the error body is plain unless named), or requests.post raising.
Responses == {"ok", "401", "429", "503", "529",
              "500_overloaded_error",   \* body contains "overloaded_error"
              "500_overloaded",         \* body contains "overloaded" only
              "exc_timeout",            \* exception, text without "overloaded"
              "exc_overloaded"}         \* exception, text with "overloaded"

HttpError(r) == r \in {"401", "429", "503", "529",
                       "500_overloaded_error", "500_overloaded"}

\* should_retry of ClaudeApiClient (186-190) and of LlamaCppClient (224-227)
should_retry(c, r) ==
    IF c = "claude" THEN r \in {"429", "529", "500_overloaded_error"}
                    ELSE r \in {"429", "503"}

\* "overloaded" in str(ex); the error body is part of the raised text
mentions_overloaded(r) ==
    r \in {"500_overloaded_error", "500_overloaded", "exc_overloaded"}

\* the retry test with <= for <
may_retry_inclusive(rc) == rc <= max_retries

\* retry_count < self.max_retries
may_retry(rc) == rc < max_retries

\* retry_count >= self.max_retries
exhausted(rc) == rc >= max_retries

\* a backoff that never grows
next_delay_constant(d) == d

\* delay_ms *= 2
next_delay(d) == d * 2

CanRequest == clientPc = "call" /\ Len(replies) < MaxRequests

\* the request reaches the except clause: requests.post raised, or the
\* "API error" exception of the not-ok branch was raised inside the try
ReachesExcept(r) ==
    \/ r \in {"exc_timeout", "exc_overloaded"}
    \/ HttpError(r) /\ ~(should_retry(client, r) /\ may_retry(retry_count))

ClientFrame == UNCHANGED <<bridgeVars, historyVars, client, pureVars, exchange>>

\* retry_count += 1; time.sleep(delay_ms / 1000); delay_ms *= 2
Backoff ==
    /\ retry_count' = retry_count + 1
    /\ sleeps' = Append(sleeps, delay_ms)
    /\ delay_ms' = next_delay(delay_ms)
    /\ UNCHANGED clientPc

\* the response is ok: send_message returns it
RequestOk ==
    /\ CanRequest
    /\ replies' = Append(replies, "ok")
    /\ clientPc' = "returned"
    /\ UNCHANGED <<retry_count, delay_ms, sleeps>>
    /\ ClientFrame

\* not ok, should_retry and retries left: back off and repeat
RequestBackoff ==
    /\ CanRequest
    /\ \E r \in Responses :
         /\ HttpError(r) /\ should_retry(client, r) /\ may_retry(retry_count)
         /\ replies' = Append(replies, r)
    /\ Backoff
    /\ ClientFrame

\* the except clause raises the terminal error
RequestFails ==
    /\ CanRequest
    /\ \E r \in Responses :
         /\ ReachesExcept(r)
         /\ IF client = "claude"
               THEN exhausted(retry_count) \/ ~mentions_overloaded(r)
               ELSE exhausted(retry_count)
         /\ replies' = Append(replies, r)
    /\ clientPc' = "raised"
    /\ UNCHANGED <<retry_count, delay_ms, sleeps>>
    /\ ClientFrame

\* ClaudeApiClient, line 210: the except clause falls through and the loop
\* repeats the request at once
RequestRepeated ==
    /\ CanRequest
    /\ client = "claude"
    /\ \E r \in Responses :
         /\ ReachesExcept(r)
         /\ ~(exhausted(retry_count) \/ ~mentions_overloaded(r))
         /\ replies' = Append(replies, r)
    /\ UNCHANGED <<retry_count, delay_ms, sleeps, clientPc>>
    /\ ClientFrame

\* LlamaCppClient, lines 262-265: the except clause backs off and repeats
RequestRetried ==
    /\ CanRequest
    /\ client = "llama"
    /\ \E r \in Responses :
         /\ ReachesExcept(r)
         /\ ~exhausted(retry_count)
         /\ replies' = Append(replies, r)
    /\ Backoff
    /\ ClientFrame

InitClient == /\ BridgeInit /\ (\E c \in {"claude", "llama"} : ClientAt(c))
              /\ HistoryInit /\ CodecIdle /\ ThinkIdle /\ ExchangeIdle

NextClient == RequestOk \/ RequestBackoff \/ RequestFails \/ RequestRepeated
              \/ RequestRetried

SpecClient == InitClient /\ [][NextClient]_vars

\* --------------------------------------------------- conversation history
\* a trim that keeps the oldest turns: conversation_history[:MAX_HISTORY_LENGTH]
trim_oldest(h) == SubSeq(h, 1, MAX_HISTORY_LENGTH)

\* conversation_history[-MAX_HISTORY_LENGTH:]
trim(h) == SubSeq(h, Len(h) - MAX_HISTORY_LENGTH + 1, Len(h))

add_message_to_history(h, role, content) ==
    LET h1 == Append(h, [role |-> role, content |-> content])
    IN  IF Len(h1) > MAX_HISTORY_LENGTH THEN trim(h1) ELSE h1

\* the turns are numbered in the order they are appended
AddMessage ==
    /\ Len(appended) < MaxTurns
    /\ \E role \in {"user", "assistant"} :
         /\ conversation_history' =
               add_message_to_history(conversation_history, role, Len(appended) + 1)
         /\ appended' = Append(appended, [role |-> role,
                                          content |-> Len(appended) + 1])
    /\ UNCHANGED <<bridgeVars, clientVars, pureVars, exchange>>

\* reset_conversation
ResetConversation ==
    /\ appended # <<>>
    /\ conversation_history' = <<>>
    /\ appended' = <<>>
    /\ UNCHANGED <<bridgeVars, clientVars, pureVars, exchange>>

NextHistory == AddMessage \/ ResetConversation

SpecHistory == Init /\ [][NextHistory]_vars


\* ------------------------------------------------------ the mailbox codec
\* Characters are code points.  sanitize_for_c64, lines 61-66: line breaks
\* become spaces, then every run of spaces is collapsed to one space.
breaks_to_spaces(text) ==
    [i \in 1..Len(text) |-> IF text[i] \in {10, 13} THEN 32 ELSE text[i]]

collapse_spaces(text) ==
    LET idx == SelectSeq([i \in 1..Len(text) |-> i],
                         LAMBDA i : ~(text[i] = 32 /\ i > 1 /\ text[i - 1] = 32))
    IN  [k \in 1..Len(idx) |-> text[idx[k]]]

\* lines 125-135 for one character: its entry of char_map (the entries of
\* the characters the modelled texts use), itself when ASCII, else '?'
map_char(c) ==
    CASE c \in {233, 201} -> <<69>>                   \* e acute -> 'E'
      [] c \in {230, 198} -> <<65, 69>>               \* ae ligature -> 'AE'
      [] c = 255          -> <<89>>                   \* y diaeresis -> 'Y'
      [] c = 176          -> <<32, 100, 101, 103>>    \* degree sign -> ' deg'
      [] c \notin {176, 198, 201, 230, 233, 255} /\ c < 128 -> <<c>>
      [] OTHER            -> <<63>>                   \* '?'

\* result += ... over the characters lo..hi of t, by halves
RECURSIVE mapped(_, _, _)
mapped(t, lo, hi) ==
    IF lo > hi THEN <<>>
    ELSE IF lo = hi THEN map_char(t[lo])
    ELSE LET mid == (lo + hi) \div 2
         IN  mapped(t, lo, mid) \o mapped(t, mid + 1, hi)

sanitize_for_c64(text) ==
    LET t == collapse_spaces(breaks_to_spaces(text))
    IN  mapped(t, 1, Len(t))

\* message.upper() of a sanitized (ASCII) message
upper(message) ==
    [i \in 1..Len(message) |->
        IF message[i] >= 97 /\ message[i] <= 122 THEN message[i] - 32
                                                  ELSE message[i]]

SeqsUpTo(S, n) == UNION {[1..k -> S] : k \in 0..n}

\* texts handed to send_message_to_c64: short ones over line feed, space,
\* 'A', 'a', a character without mapping, degree sign, ae ligature, e acute
\* and y diaeresis; and long ones around the limit of 240
Texts ==
    SeqsUpTo({10, 32, 65, 97, 128, 176, 230, 233, 255}, MaxText)
    \cup {[i \in 1..n |-> c] : n \in {SEND_LIMIT - 1, SEND_LIMIT, SEND_LIMIT + 1},
                               c \in {65, 230}}

\* byte sequences handed to the framing of lines 272-276 alone
ByteSeqs ==
    (SeqsUpTo({0, 65, 97, 128, 255}, MaxText) \ {<<>>})
    \cup {[i \in 1..n |-> 255] : n \in {SEND_LIMIT - 1, SEND_LIMIT}}

\* the mailbox after the chunk was written over whatever it held before
Mailbox(chunk) ==
    write_memory([a \in OUTGOING_MSG_ADDR..(OUTGOING_MSG_ADDR + 255) |-> JUNK],
                 OUTGOING_MSG_ADDR, chunk)

CodecFrame == UNCHANGED <<bridgeVars, clientVars, historyVars, think, exchange,
                          stream, notice, adders>>

\* lines 247-248: nothing is sent for an empty message
ReturnEmpty ==
    /\ codec.pc = "text"
    /\ codec.text = <<>>
    /\ codec' = [codec EXCEPT !.pc = "returned"]
    /\ CodecFrame

\* lines 251-254
Prepare ==
    /\ codec.pc = "text"
    /\ codec.text # <<>>
    /\ codec' = [codec EXCEPT !.pc = "message",
                              !.message = upper(sanitize_for_c64(codec.text))]
    /\ CodecFrame

\* lines 257-279
Frame ==
    /\ codec.pc = "message"
    /\ codec' = [codec EXCEPT !.pc = "chunk",
                              !.chunk = message_bytes(codec.message)]
    /\ CodecFrame

\* check_for_messages lines 446-447 and 476-480 (read_outgoing_message
\* lines 366-384 does the same): the length byte, then that many bytes
Decode ==
    /\ codec.pc = "chunk"
    /\ LET box == Mailbox(codec.chunk)
           len == read_memory(box, OUTGOING_MSG_ADDR, OUTGOING_MSG_ADDR + 1)[1]
           data == read_memory(box, OUTGOING_MSG_ADDR + 1,
                               OUTGOING_MSG_ADDR + len + 1)
       IN  codec' = [codec EXCEPT !.pc = "decoded", !.decoded = decode(data, len)]
    /\ CodecFrame

InitCodec ==
    /\ BridgeInit /\ ClientAt("claude") /\ HistoryInit /\ ThinkIdle /\ ExchangeIdle
    /\ \/ \E t \in Texts :
            codec = [pc |-> "text", text |-> t, message |-> <<>>,
                     chunk |-> <<>>, decoded |-> <<>>]
       \/ \E b \in ByteSeqs :
            codec = [pc |-> "message", text |-> <<>>, message |-> b,
                     chunk |-> <<>>, decoded |-> <<>>]

NextCodec == ReturnEmpty \/ Prepare \/ Frame \/ Decode

SpecCodec == InitCodec /\ [][NextCodec]_vars

\* ---------------------------------------------------- extract_thinking
\* Texts are sequences of code points.
OPEN_TAG == <<60, 116, 104, 105, 110, 107, 62>>         \* "<think>"
CLOSE_TAG == <<60, 47, 116, 104, 105, 110, 107, 62>>    \* "</think>"

\* what str.strip() removes (ASCII)
whitespace == {9, 10, 11, 12, 13, 28, 29, 30, 31, 32}

SetMin(S) == CHOOSE x \in S : \A y \in S : x <= y
SetMax(S) == CHOOSE x \in S : \A y \in S : x >= y

strip(s) ==
    LET idx == {i \in 1..Len(s) : s[i] \notin whitespace}
    IN  IF idx = {} THEN <<>> ELSE SubSeq(s, SetMin(idx), SetMax(idx))

\* the tag stands at position p of s
at(s, p, tag) ==
    /\ p >= 1
    /\ p + Len(tag) - 1 <= Len(s)
    /\ SubSeq(s, p, p + Len(tag) - 1) = tag

\* first position from pos on where the tag stands, 0 when there is none
find(s, tag, pos) ==
    LET ps == {p \in pos..Len(s) : at(s, p, tag)}
    IN  IF ps = {} THEN 0 ELSE SetMin(ps)

\* the matches of r'<think>(.*?)</think>' with DOTALL from pos on: a match
\* covers the positions start..(end - 1)
RECURSIVE think_pattern(_, _)
think_pattern(s, pos) ==
    LET i == find(s, OPEN_TAG, pos)
        j == IF i = 0 THEN 0 ELSE find(s, CLOSE_TAG, i + Len(OPEN_TAG))
    IN  IF i = 0 \/ j = 0 THEN <<>>
        ELSE <<[start |-> i, end |-> j + Len(CLOSE_TAG),
                group |-> SubSeq(s, i + Len(OPEN_TAG), j - 1)]>>
             \o think_pattern(s, j + Len(CLOSE_TAG))

\* the fragments of the matches, with surrounding whitespace removed
fragments_of_stripped(matches) ==
    [k \in DOMAIN matches |-> strip(matches[k].group)]

\* the fragments of the matches, as they stand
fragments_of(matches) == [k \in DOMAIN matches |-> matches[k].group]

\* cleaned_response[:start] + cleaned_response[end:] for every span
remove(s, spans) ==
    LET idx == SelectSeq([i \in 1..Len(s) |-> i],
                 LAMBDA i : \A k \in DOMAIN spans :
                               ~(spans[k].start <= i /\ i < spans[k].end))
    IN  [k \in 1..Len(idx) |-> s[idx[k]]]

\* every segment before a closing tag counts, as it stands
RECURSIVE orphaned_end_tags_unstripped(_, _)
orphaned_end_tags_unstripped(s, last_end) ==
    LET end_pos == find(s, CLOSE_TAG, last_end)
    IN  IF end_pos = 0 THEN <<>>
        ELSE <<[start |-> last_end, end |-> end_pos + Len(CLOSE_TAG),
                group |-> SubSeq(s, last_end, end_pos - 1)]>>
             \o orphaned_end_tags_unstripped(s, end_pos + Len(CLOSE_TAG))

\* the loop over re.finditer(r'</think>', cleaned_response): the fragments
\* kept and the spans to remove
RECURSIVE orphaned_end_tags(_, _)
orphaned_end_tags(s, last_end) ==
    LET end_pos == find(s, CLOSE_TAG, last_end)
        fragment == strip(SubSeq(s, last_end, end_pos - 1))
    IN  IF end_pos = 0 THEN <<>>
        ELSE (IF fragment # <<>>
                THEN <<[start |-> last_end, end |-> end_pos + Len(CLOSE_TAG),
                        group |-> fragment]>>
                ELSE <<>>)
             \o orphaned_end_tags(s, end_pos + Len(CLOSE_TAG))

\* (?=<think>|$): '$' is the end of the text or the place before a final
\* line feed
lookahead(s, p) ==
    \/ at(s, p, OPEN_TAG)
    \/ p = Len(s) + 1
    \/ p = Len(s) /\ s[p] = 10

\* an opening tag takes everything up to the end of the text
orphaned_start_pattern_to_end(s, pos) ==
    LET i == find(s, OPEN_TAG, pos)
    IN  IF i = 0 THEN <<>>
        ELSE <<[start |-> i, end |-> Len(s) + 1,
                group |-> SubSeq(s, i + Len(OPEN_TAG), Len(s))]>>

\* the matches of r'<think>(.*?)(?=<think>|$)' with DOTALL from pos on
RECURSIVE orphaned_start_pattern(_, _)
orphaned_start_pattern(s, pos) ==
    LET i == find(s, OPEN_TAG, pos)
        e == SetMin({p \in (i + Len(OPEN_TAG))..(Len(s) + 1) : lookahead(s, p)})
    IN  IF i = 0 THEN <<>>
        ELSE <<[start |-> i, end |-> e,
                group |-> SubSeq(s, i + Len(OPEN_TAG), e - 1)]>>
             \o orphaned_start_pattern(s, e)

\* the loop over the orphaned start matches: blank fragments are skipped
orphaned_starts(s) ==
    LET ms == orphaned_start_pattern(s, 1)
        kept == SelectSeq(ms, LAMBDA m : strip(m.group) # <<>>)
    IN  [k \in DOMAIN kept |-> [kept[k] EXCEPT !.group = strip(@)]]

\* the matches of r'<think>|</think>' from pos on
RECURSIVE tags(_, _)
tags(s, pos) ==
    LET o == find(s, OPEN_TAG, pos)
        c == find(s, CLOSE_TAG, pos)
        p == IF o = 0 THEN c ELSE IF c = 0 THEN o ELSE Min(o, c)
        e == IF p = o THEN p + Len(OPEN_TAG) ELSE p + Len(CLOSE_TAG)
    IN  IF p = 0 THEN <<>>
        ELSE <<[start |-> p, end |-> e]>> \o tags(s, e)

\* the leftover tags stay
clean_up_keeping_tags(s) == strip(s)

\* the leftover tags go, the surrounding whitespace stays
clean_up_untrimmed(s) == remove(s, tags(s, 1))

\* re.sub(r'<think>|</think>', '', cleaned_response).strip()
clean_up(s) == strip(remove(s, tags(s, 1)))

\* ' '.join(thinking_fragments)
RECURSIVE join(_)
join(fragments) ==
    IF fragments = <<>> THEN <<>>
    ELSE IF Len(fragments) = 1 THEN fragments[1]
    ELSE fragments[1] \o <<32>> \o join(Tail(fragments))

\* new fragments put in front of the earlier ones
extend_front(fragments, found) == found \o fragments

\* thinking_fragments.append(...) for every fragment found, in order
extend(fragments, found) == fragments \o found

\* thinking_text: None without fragments
NoThinking == [none |-> TRUE, text |-> <<>>]

thinking_text(fragments) ==
    IF fragments = <<>> THEN NoThinking
    ELSE [none |-> FALSE, text |-> join(fragments)]

\* pieces the modelled responses are built from: the two tags, "a", a
\* space, a line feed, and halves of tags that removals can bring together
Pieces ==
    {OPEN_TAG, CLOSE_TAG, <<97>>, <<32>>, <<10>>,
     <<60, 116, 104, 105>>, <<110, 107, 62>>,
     <<60, 47, 116, 104>>, <<105, 110, 107, 62>>}

\* "A", "answer" and the like, bare and with whitespace around them
Inner == {<<65>>, <<32, 65, 32>>, <<32>>, <<>>}

Outer == {<<97, 110, 115, 119, 101, 114>>,
          <<32, 97, 110, 115, 119, 101, 114, 32>>, <<32, 104, 105, 32>>}

Words == {<<88>>, <<97, 32, 98>>}

\* one well-formed span and an answer; orphaned closing tags; orphaned
\* opening tags; and texts with all three kinds in an order that differs
\* from the order of the passes
Shaped ==
    {OPEN_TAG \o a \o CLOSE_TAG \o b : a \in Inner, b \in Outer}
    \cup {a \o CLOSE_TAG \o b : a \in Inner, b \in Outer}
    \cup {x \o CLOSE_TAG \o y \o CLOSE_TAG \o z :
             x \in {<<88>>, <<32>>}, y \in {<<89>>, <<89, 32>>}, z \in {<<90>>}}
    \cup {b \o OPEN_TAG \o a : a \in Inner, b \in Outer}
    \cup {b \o OPEN_TAG \o x \o OPEN_TAG \o a : a \in Inner, b \in Outer, x \in Words}
    \cup Outer
    \cup {x \o CLOSE_TAG \o OPEN_TAG \o a \o CLOSE_TAG \o y \o OPEN_TAG \o b :
             x \in Words, a \in Words, y \in Words, b \in Words}

ResponseTexts == {Concat(ps) : ps \in SeqsUpTo(Pieces, MaxPieces)} \cup Shaped

ThinkFrame == UNCHANGED <<bridgeVars, clientVars, historyVars, codec, exchange,
                          stream, notice, adders>>

\* lines 360-370: Step 1
FindPairs ==
    /\ think.pc = "call"
    /\ LET proper_matches == think_pattern(think.response_text, 1)
       IN  think' = [think EXCEPT
             !.pc = "step2",
             !.thinking_fragments = extend(@, fragments_of(proper_matches)),
             !.proper = fragments_of(proper_matches),
             !.cleaned_response =
                 IF proper_matches # <<>>
                   THEN remove(think.response_text, proper_matches)
                   ELSE @]
    /\ ThinkFrame

\* lines 372-393: Step 2
OrphanedEnds ==
    /\ think.pc = "step2"
    /\ LET fragments_to_remove == orphaned_end_tags(think.cleaned_response, 1)
       IN  think' = [think EXCEPT
             !.pc = "step3",
             !.thinking_fragments = extend(@, fragments_of(fragments_to_remove)),
             !.ends = fragments_of(fragments_to_remove),
             !.cleaned_response = remove(@, fragments_to_remove)]
    /\ ThinkFrame

\* lines 395-408: Step 3
OrphanedStarts ==
    /\ think.pc = "step3"
    /\ LET fragments_to_remove == orphaned_starts(think.cleaned_response)
       IN  think' = [think EXCEPT
             !.pc = "cleanup",
             !.thinking_fragments = extend(@, fragments_of(fragments_to_remove)),
             !.starts = fragments_of(fragments_to_remove),
             !.cleaned_response = remove(@, fragments_to_remove)]
    /\ ThinkFrame

\* lines 410-416
CleanUp ==
    /\ think.pc = "cleanup"
    /\ think' = [think EXCEPT
          !.pc = "returned",
          !.cleaned_response = clean_up(@),
          !.thinking_text = thinking_text(think.thinking_fragments)]
    /\ ThinkFrame

InitThink ==
    /\ BridgeInit /\ ClientAt("llama") /\ HistoryInit /\ CodecIdle /\ ExchangeIdle
    /\ \E t \in ResponseTexts :
         think = [pc |-> "call", response_text |-> t, thinking_fragments |-> <<>>,
                  cleaned_response |-> t, thinking_text |-> NoThinking,
                  proper |-> <<>>, ends |-> <<>>, starts |-> <<>>]

NextThink == FindPairs \/ OrphanedEnds \/ OrphanedStarts \/ CleanUp

SpecThink == InitThink /\ [][NextThink]_vars

\* ------------------------------------------------- process_user_message
\* extract_thinking as one function: the three passes and the clean-up
extract_thinking(response_text) ==
    LET proper_matches == think_pattern(response_text, 1)
        c1 == IF proper_matches # <<>> THEN remove(response_text, proper_matches)
                                       ELSE response_text
        ends == orphaned_end_tags(c1, 1)
        c2 == remove(c1, ends)
        starts == orphaned_starts(c2)
        c3 == remove(c2, starts)
    IN  [thinking |-> thinking_text(extend(extend(fragments_of(proper_matches),
                                                  fragments_of(ends)),
                                           fragments_of(starts))),
         answer |-> clean_up(c3)]

\* a cut to the first 200 characters, without the ellipsis
shorten_plain(text) == SubSeq(text, 1, Min(Len(text), 200))

\* if len(text) > 200: text = text[:197] + "..."
shorten(text) ==
    IF Len(text) > 200 THEN SubSeq(text, 1, 197) \o <<46, 46, 46>> ELSE text

ERROR_PREFIX == <<69, 82, 82, 79, 82, 58, 32>>    \* "ERROR: "

\* the error text goes out as it is, without the prefix
error_message_bare(e) == shorten(sanitize_for_c64(e))

\* the except clause: "ERROR: " + sanitize_for_c64(str(e)), shortened
error_message(e) == shorten(ERROR_PREFIX \o sanitize_for_c64(e))

\* str(e) of the terminal error, by the last reply of the service: a long
\* error body, a text with an accented letter and line feeds, a short text
str_of(r) ==
    CASE r = "500_overloaded" -> [i \in 1..250 |-> 97]
      [] r = "503"            -> [i \in 1..193 |-> 97]
      [] r = "529"            -> [i \in 1..194 |-> 97]
      [] r = "exc_timeout"    -> <<233, 10, 10, 120>>
      [] OTHER                -> <<120>>

\* what the service answers when the client returns.  ClaudeApiClient: the
\* "thinking" and "text" content blocks, either of them absent.
ClaudeAnswers ==
    {[thinking |-> NoThinking, answer |-> <<111, 107>>],
     [thinking |-> [none |-> FALSE, text |-> <<116>>], answer |-> <<111, 107>>],
     [thinking |-> [none |-> FALSE, text |-> <<116>>], answer |-> <<>>],
     [thinking |-> [none |-> FALSE, text |-> [i \in 1..200 |-> 116]],
      answer |-> <<111, 107>>],
     [thinking |-> [none |-> FALSE, text |-> [i \in 1..201 |-> 116]],
      answer |-> <<111, 107>>]}

\* LlamaCppClient: the streamed text, split by extract_thinking
LlamaAnswers ==
    {extract_thinking(strip(t)) :
        t \in {<<111, 107, 32>>,
               OPEN_TAG \o <<116>> \o CLOSE_TAG \o <<111, 107>>,
               OPEN_TAG \o CLOSE_TAG,
               [i \in 1..201 |-> 116] \o CLOSE_TAG \o <<111, 107>>}}

\* if thinking_text: neither None nor the empty text
truthy(thinking) == ~thinking.none /\ thinking.text # <<>>

\* histories an exchange starts with: empty, and as long as it may get
Histories ==
    {[k \in 1..n |-> [role |-> IF k % 2 = 1 THEN "user" ELSE "assistant",
                      content |-> <<k>>]] : n \in {0, MAX_HISTORY_LENGTH}}

\* vice_monitor.write_memory on the image of one inbound mailbox
overwrite(image, bytes) == bytes \o SubSeq(image, Len(bytes) + 1, Len(image))

\* a call of send_message_to_c64(text, address, status_addr) begins
Call(ex, pc, chan, text) ==
    [ex EXCEPT !.pc = pc, !.step = "entry", !.chan = chan, !.text = text]

\* send_message_to_c64 returns: None, whether the transport failed or not
Return(ex, failed) ==
    [ex EXCEPT !.step = "none",
               !.sends = Append(@, [chan |-> ex.chan, text |-> ex.text,
                                    failed |-> failed, result |-> "None"]),
               !.pc = IF ex.pc = "thinking" THEN "assistant" ELSE "done"]

\* ------------------------------------------------------------ the request
USER_TAG == <<60, 65372, 85, 115, 101, 114, 65372, 62>>    \* "<|User|>"
ASSISTANT_TAG ==                                           \* "<|Assistant|>"
    <<60, 65372, 65, 115, 115, 105, 115, 116, 97, 110, 116, 65372, 62>>

\* the instruction text of lines 64-68, which holds no user text: "VERY"
\* stands for it
C64_SYSTEM_INSTRUCTIONS == <<86, 69, 82, 89>>

\* "\n\nUser message: "
USER_MESSAGE_LABEL ==
    <<10, 10, 85, 115, 101, 114, 32, 109, 101, 115, 115, 97, 103, 101, 58, 32>>

\* llama lines 469-473: every third message carries the instructions
formatted_message(message_counter, message) ==
    IF message_counter % 3 = 1
      THEN C64_SYSTEM_INSTRUCTIONS \o USER_MESSAGE_LABEL \o message
      ELSE message

\* llama lines 175-182: one turn of the history in the prompt
format_turn(msg) ==
    IF msg.role = "user" THEN USER_TAG \o msg.content \o ASSISTANT_TAG
    ELSE IF msg.role = "assistant" THEN msg.content
    ELSE <<>>

\* LlamaCppClient.format_conversation with the history it reads
format_conversation(history, message) ==
    C64_SYSTEM_INSTRUCTIONS \o <<10, 10>>
    \o Concat([k \in DOMAIN history |-> format_turn(history[k])])
    \o USER_TAG \o message \o ASSISTANT_TAG

NoRequest == [none |-> TRUE, messages |-> <<>>, prompt |-> <<>>]

\* ClaudeApiClient.send_message, lines 154-168: "messages" is the list passed
\* in, which line 312 makes the conversation history
claude_request(history) == [none |-> FALSE, messages |-> history, prompt |-> <<>>]

\* LlamaCppClient.send_message, lines 190-202: "prompt"
llama_request(history, message) ==
    [none |-> FALSE, messages |-> <<>>, prompt |-> format_conversation(history, message)]

ExchangeFrame == UNCHANGED <<bridgeVars, clientVars, appended, pureVars>>

\* process_user_message, line 307: the user turn is recorded before the try
AddUserTurn ==
    /\ exchange.pc = "start"
    /\ conversation_history' =
          add_message_to_history(conversation_history, "user", exchange.message)
    /\ exchange' = [exchange EXCEPT !.pc = "request"]
    /\ ExchangeFrame

\* line 312 and lines 154-168: the request of ClaudeApiClient; llama lines
\* 466-477 and 190-202: the message counter, the formatted message and the
\* request of LlamaCppClient
BuildRequest ==
    /\ exchange.pc = "request"
    /\ exchange' =
          IF client = "claude"
            THEN [exchange EXCEPT !.pc = "client",
                                  !.request = claude_request(conversation_history)]
            ELSE [exchange EXCEPT
                    !.pc = "client",
                    !.message_counter = @ + 1,
                    !.request = llama_request(conversation_history,
                                    formatted_message(exchange.message_counter + 1,
                                                      exchange.message))]
    /\ UNCHANGED conversation_history
    /\ ExchangeFrame

\* the retries of client.send_message
AskClient ==
    /\ exchange.pc = "client"
    /\ NextClient

\* lines 314-332 (llama 479-501): the client returned; thinking text, when
\* there is some, is shortened and sent first
\* the thinking text is noted and not sent
after_reply_answer_only(ex, a) ==
    [ex EXCEPT !.answer = a.answer,
               !.thinking = IF truthy(a.thinking) THEN a.thinking.text ELSE @,
               !.pc = "assistant"]

\* lines 326-332 (llama 490-501): if thinking_text: shorten it and call
\* send_thinking_to_c64; the answer comes after the call has returned
after_reply(ex, a) ==
    IF truthy(a.thinking)
      THEN Call([ex EXCEPT !.answer = a.answer, !.thinking = a.thinking.text],
                "thinking", "think", shorten(a.thinking.text))
      ELSE [ex EXCEPT !.answer = a.answer, !.pc = "assistant"]

ClientReturned ==
    /\ exchange.pc = "client"
    /\ clientPc = "returned"
    /\ \E a \in (IF client = "claude" THEN ClaudeAnswers ELSE LlamaAnswers) :
         exchange' = after_reply(exchange, a)
    /\ UNCHANGED conversation_history
    /\ ExchangeFrame

\* lines 335-343: ClaudeApiClient records and sends the answer if there is
\* one; llama lines 504-510: always
AddAssistantTurn ==
    /\ exchange.pc = "assistant"
    /\ IF client = "claude" /\ exchange.answer = <<>>
         THEN /\ exchange' = [exchange EXCEPT !.pc = "done"]
              /\ UNCHANGED conversation_history
         ELSE /\ conversation_history' =
                    add_message_to_history(conversation_history, "assistant",
                                           exchange.answer)
              /\ exchange' = Call(exchange, "answer", "resp", exchange.answer)
    /\ ExchangeFrame

\* lines 346-356 (llama 513-523): the except clause
ClientRaised ==
    /\ exchange.pc = "client"
    /\ clientPc = "raised"
    /\ exchange' = Call([exchange EXCEPT !.raised = TRUE,
                                         !.e = str_of(replies[Len(replies)])],
                        "error", "resp",
                        error_message(str_of(replies[Len(replies)])))
    /\ UNCHANGED conversation_history
    /\ ExchangeFrame

\* every message is sent, the empty one too
empty_message_never(message) == FALSE

\* line 247 (llama 297): if not message
empty_message(message) == message = <<>>

\* send_message_to_c64, lines 247-248: return before any transport call
ExSendEmpty ==
    /\ exchange.step = "entry"
    /\ empty_message(exchange.text)
    /\ exchange' = [exchange EXCEPT
          !.step = "none",
          !.pc = IF exchange.pc = "thinking" THEN "assistant" ELSE "done"]
    /\ UNCHANGED conversation_history
    /\ ExchangeFrame

\* lines 251-265: sanitize, upper, connect and clear the length byte
ExSendClear ==
    /\ exchange.step = "entry"
    /\ ~empty_message(exchange.text)
    /\ exchange' = [exchange EXCEPT
          !.step = "write",
          !.mailbox[exchange.chan] = overwrite(@, <<0>>)]
    /\ UNCHANGED conversation_history
    /\ ExchangeFrame

\* lines 272-279: the chunk in one write
ExSendWrite ==
    /\ exchange.step = "write"
    /\ exchange' = [exchange EXCEPT
          !.step = "status",
          !.mailbox[exchange.chan] =
              overwrite(@, message_bytes(upper(sanitize_for_c64(exchange.text))))]
    /\ UNCHANGED conversation_history
    /\ ExchangeFrame

\* lines 282-288: reset the status byte, exit, return
ExSendStatus ==
    /\ exchange.step = "status"
    /\ exchange' = [Return(exchange, FALSE) EXCEPT !.status[exchange.chan] = NONE]
    /\ UNCHANGED conversation_history
    /\ ExchangeFrame

\* lines 289-295: get_socket or a write raised; the except clause prints
\* the error, exits the monitor and falls off the end of the function
ExSendFails ==
    /\ exchange.step \in {"entry", "write", "status"}
    /\ ~empty_message(exchange.text)
    /\ exchange' = Return(exchange, TRUE)
    /\ UNCHANGED conversation_history
    /\ ExchangeFrame

InitExchange ==
    /\ BridgeInit /\ CodecIdle /\ ThinkIdle /\ stream = [pc |-> "idle"]
    /\ NoticeIdle
    /\ \E c \in {"claude", "llama"} : ClientAt(c)
    /\ appended = <<>>
    /\ \E h \in Histories, n \in 0..1 :
         /\ client = "claude" => n = 0
         /\ conversation_history = h
         /\ exchange = [pc |-> "start", step |-> "none", chan |-> "resp",
                        text |-> <<>>, message |-> <<104, 105>>, h0 |-> h,
                        message_counter |-> n, request |-> NoRequest,
                        raised |-> FALSE, e |-> <<>>, thinking |-> <<>>,
                        answer |-> <<>>, sends |-> <<>>,
                        mailbox |-> [ch \in {"think", "resp"} |-> <<>>],
                        status |-> [ch \in {"think", "resp"} |-> LAST]]

NextExchange == AddUserTurn \/ BuildRequest \/ AskClient \/ ClientReturned
                \/ AddAssistantTurn
                \/ ClientRaised \/ ExSendEmpty \/ ExSendClear \/ ExSendWrite
                \/ ExSendStatus \/ ExSendFails

SpecExchange == InitExchange /\ [][NextExchange]_vars

\* ------------------------------------------- the streamed response
\* LlamaCppClient.send_message from line 207 on: the attempts of one call
\* and the lines of the response of each.

\* line 207 stands before the loop: an attempt begins with full_response as
\* the attempt before left it
restart_response(full_response) == full_response

\* the content of line k of attempt n: no two lines carry the same
content_of(n, k) == <<97 + n * (MaxLines + 1) + k>>

StreamFrame == UNCHANGED <<bridgeVars, clientVars, historyVars, codec, think,
                           exchange, notice, adders>>

\* lines 258-265: the except clause
StreamExcept ==
    IF exhausted(stream.retry_count)
      THEN stream' = [stream EXCEPT !.pc = "raised"]
      ELSE stream' = [stream EXCEPT
             !.pc = "post",
             !.retry_count = @ + 1,
             !.failed = Append(@, stream.got),
             !.got = <<>>,
             !.lines = 0,
             !.full_response = restart_response(@)]

\* lines 211-236: requests.post raises, or the response is not ok; the
\* attempt is repeated while retries are left
AttemptFails ==
    /\ stream.pc = "post"
    /\ StreamExcept
    /\ StreamFrame

\* lines 211-220 and 239: the response is ok, its lines are read
StreamOpens ==
    /\ stream.pc = "post"
    /\ stream' = [stream EXCEPT !.pc = "stream"]
    /\ StreamFrame

\* lines 240-252: a "data: " line; its content, if it has one, is appended,
\* and with the stop flag the response is returned
DataLine ==
    /\ stream.pc = "stream"
    /\ stream.lines < MaxLines
    /\ \E has_content \in BOOLEAN, stop \in BOOLEAN :
         LET content == IF has_content
                          THEN content_of(stream.retry_count, stream.lines + 1)
                          ELSE <<>>
         IN  stream' = [stream EXCEPT
               !.lines = @ + 1,
               !.full_response = @ \o content,
               !.got = @ \o content,
               !.stopped = stop,
               !.pc = IF stop THEN "returned" ELSE "stream"]
    /\ StreamFrame

\* lines 240, 242 and 253-254: an empty line, a line without "data: ", a
\* line that is not JSON
OtherLine ==
    /\ stream.pc = "stream"
    /\ stream.lines < MaxLines
    /\ stream' = [stream EXCEPT !.lines = @ + 1]
    /\ StreamFrame

\* line 256: the lines are over without a stop flag
StreamEnds ==
    /\ stream.pc = "stream"
    /\ stream' = [stream EXCEPT !.pc = "returned"]
    /\ StreamFrame

\* iter_lines raises while the lines are read
StreamBreaks ==
    /\ stream.pc = "stream"
    /\ StreamExcept
    /\ StreamFrame

InitStream ==
    /\ BridgeInit /\ ClientAt("llama") /\ HistoryInit
    /\ CodecIdle /\ ThinkIdle /\ exchange = [pc |-> "idle"] /\ NoticeIdle
    /\ stream = [pc |-> "post", retry_count |-> 0, full_response |-> <<>>,
                 got |-> <<>>, failed |-> <<>>, lines |-> 0, stopped |-> FALSE]

NextStream == AttemptFails \/ StreamOpens \/ DataLine \/ OtherLine
              \/ StreamEnds \/ StreamBreaks

SpecStream == InitStream /\ [][NextStream]_vars

\* ------------------------------------------- the "still thinking" notice
\* One sealed message: the thread of send_processing_message started at
\* lines 500-505 and the thread of process_user_message started at lines
\* 509-515, both sending on the response channel.  box is the image of the
\* response mailbox.

\* time.sleep(5), in ticks of 0.1 s
NOTICE_DELAY == 50
\* len(user_message) > 50
NOTICE_THRESHOLD == 50

\* "STILL THINKING... PLEASE WAIT..."
update_msg == <<83, 84, 73, 76, 76, 32, 84, 72, 73, 78, 75, 73, 78, 71, 46, 46, 46, 32, 80, 76, 69, 65, 83, 69, 32, 87, 65, 73, 84, 46, 46, 46>>

\* line 560: if len(user_message) > 50
notice_due(n) == n.length > NOTICE_THRESHOLD

\* the chunk send_message_to_c64 writes for a text
chunk_of(text) == message_bytes(upper(sanitize_for_c64(text)))

\* what the exchange sends on the response channel: an answer or an error
ReplyTexts == {<<111, 107>>, ERROR_PREFIX \o <<120>>}

NoticeFrame == UNCHANGED <<bridgeVars, clientVars, historyVars, codec, think,
                           exchange, stream, adders>>

\* line 557: 0.1 s of the sleep goes by
NoticeSleeps ==
    /\ notice.pc = "sleep"
    /\ notice.left > 0
    /\ notice' = [notice EXCEPT !.left = @ - 1]
    /\ NoticeFrame

\* lines 557-562: the sleep is over; a long message gets the notice
NoticeWakes ==
    /\ notice.pc = "sleep"
    /\ notice.left = 0
    /\ notice' = [notice EXCEPT !.pc = IF notice_due(notice) THEN "clear" ELSE "done"]
    /\ NoticeFrame

\* send_message_to_c64(update_msg), line 265
NoticeClear ==
    /\ notice.pc = "clear"
    /\ notice' = [notice EXCEPT !.pc = "write", !.box = overwrite(@, <<0>>)]
    /\ NoticeFrame

\* line 279
NoticeWrite ==
    /\ notice.pc = "write"
    /\ notice' = [notice EXCEPT !.pc = "status",
                                !.box = overwrite(@, chunk_of(update_msg)),
                                !.noticed = TRUE]
    /\ NoticeFrame

\* lines 282-283
NoticeStatus ==
    /\ notice.pc = "status"
    /\ notice' = [notice EXCEPT !.pc = "done", !.status = NONE]
    /\ NoticeFrame

\* process_user_message: the client has returned or raised and the answer
\* or the error message is handed to send_message_to_c64
ReplyReady ==
    /\ notice.xpc = "generate"
    /\ \E text \in ReplyTexts :
         notice' = [notice EXCEPT !.xpc = "clear", !.reply = text]
    /\ NoticeFrame

\* send_message_to_c64(response_text), line 265
ReplyClear ==
    /\ notice.xpc = "clear"
    /\ notice' = [notice EXCEPT !.xpc = "write", !.box = overwrite(@, <<0>>)]
    /\ NoticeFrame

\* line 279
ReplyWrite ==
    /\ notice.xpc = "write"
    /\ notice' = [notice EXCEPT !.xpc = "status",
                                !.box = overwrite(@, chunk_of(notice.reply)),
                                !.answered = TRUE]
    /\ NoticeFrame

\* lines 282-283
ReplyStatus ==
    /\ notice.xpc = "status"
    /\ notice' = [notice EXCEPT !.xpc = "done", !.status = NONE]
    /\ NoticeFrame

\* the state after a seal: a message of 50 or of 51 characters, a command
\* (no exchange) or not
InitNotice ==
    /\ BridgeInit /\ ClientAt("claude") /\ HistoryInit /\ adders = <<>>
    /\ CodecIdle /\ ThinkIdle /\ exchange = [pc |-> "idle"]
    /\ stream = [pc |-> "idle"]
    /\ \E n \in {NOTICE_THRESHOLD, NOTICE_THRESHOLD + 1}, slash \in BOOLEAN :
         notice = [pc |-> "sleep", left |-> NOTICE_DELAY, length |-> n,
                   xpc |-> IF slash THEN "none" ELSE "generate",
                   reply |-> <<>>, box |-> <<>>, status |-> LAST,
                   answered |-> FALSE, noticed |-> FALSE]

NextNotice == NoticeSleeps \/ NoticeWakes \/ NoticeClear \/ NoticeWrite
              \/ NoticeStatus \/ ReplyReady \/ ReplyClear \/ ReplyWrite
              \/ ReplyStatus

SpecNotice == InitNotice /\ [][NextNotice]_vars

\* ------------------------------- add_message_to_history by two threads
\* Two exchanges append a turn each.  The statements of the function are the
\* steps; a thread can be suspended between any two of them and between the
\* slice of line 232 and the rebinding of the global name.

\* conversation_history[-MAX_HISTORY_LENGTH:] of a list of any length
last_turns(h) ==
    SubSeq(h, IF Len(h) > MAX_HISTORY_LENGTH
                THEN Len(h) - MAX_HISTORY_LENGTH + 1 ELSE 1, Len(h))

\* the histories two concurrent calls start with
RaceHistories ==
    {[k \in 1..n |-> [role |-> IF k % 2 = 1 THEN "user" ELSE "assistant",
                      content |-> <<k>>]] :
        n \in {0, MAX_HISTORY_LENGTH - 2, MAX_HISTORY_LENGTH - 1,
               MAX_HISTORY_LENGTH}}

AddersFrame == UNCHANGED <<bridgeVars, clientVars, codec, think, exchange,
                           stream, notice>>

\* line 228: conversation_history.append(message)
AdderAppends(t) ==
    /\ adders[t].pc = "append"
    /\ conversation_history' = Append(conversation_history, adders[t].message)
    /\ appended' = Append(appended, adders[t].message)
    /\ adders' = [adders EXCEPT ![t].pc = "test"]
    /\ AddersFrame

\* line 231: if len(conversation_history) > MAX_HISTORY_LENGTH
AdderTests(t) ==
    /\ adders[t].pc = "test"
    /\ adders' = [adders EXCEPT ![t].pc =
                     IF Len(conversation_history) > MAX_HISTORY_LENGTH
                       THEN "slice" ELSE "done"]
    /\ UNCHANGED historyVars
    /\ AddersFrame

\* line 232, right-hand side: a new list of the last turns
AdderSlices(t) ==
    /\ adders[t].pc = "slice"
    /\ adders' = [adders EXCEPT ![t].pc = "rebind",
                                ![t].sliced = last_turns(conversation_history)]
    /\ UNCHANGED historyVars
    /\ AddersFrame

\* line 232, assignment: the global name is bound to the new list
AdderRebinds(t) ==
    /\ adders[t].pc = "rebind"
    /\ conversation_history' = adders[t].sliced
    /\ adders' = [adders EXCEPT ![t].pc = "done"]
    /\ UNCHANGED appended
    /\ AddersFrame

Appends == \E t \in DOMAIN adders : AdderAppends(t)
Tests   == \E t \in DOMAIN adders : AdderTests(t)
Slices  == \E t \in DOMAIN adders : AdderSlices(t)
Rebinds == \E t \in DOMAIN adders : AdderRebinds(t)

InitAdders ==
    /\ BridgeInit /\ ClientAt("claude") /\ CodecIdle /\ ThinkIdle
    /\ exchange = [pc |-> "idle"] /\ stream = [pc |-> "idle"]
    /\ notice = [pc |-> "idle"]
    /\ \E h \in RaceHistories :
         /\ conversation_history = h
         /\ appended = h
    /\ adders = [t \in 1..2 |->
                   [pc |-> "append", sliced |-> <<>>,
                    message |-> [role |-> IF t = 1 THEN "user" ELSE "assistant",
                                 content |-> <<100 + t>>]]]

NextAdders == Appends \/ Tests \/ Slices \/ Rebinds

SpecAdders == InitAdders /\ [][NextAdders]_vars

\* ------------------------------------------------------------ properties
\* poll iterations that read the length byte of the outbound mailbox
ReadsOutbound == PollEmpty \/ PollRestart \/ PollWait \/ PollRead
                 \/ FailStatusRead \/ FailEmptyExit \/ FailRestartExit
                 \/ FailWaitExit \/ FailPayloadRead \/ FailAck \/ FailSealExit

\* poll iterations that read the payload (line 476 returns)
ReadsPayload == PollRead \/ FailAck \/ FailSealExit

\* C1: every logical message the device writes (chunks MORE,...,MORE,LAST,
\* each written after the previous one was acknowledged) is eventually sealed
\* with a text equal to the concatenation of all its chunk payloads.
C1_Reassembled ==
    \A i \in 1..MaxMsgs :
        (devCount = i) ~> (/\ lastSeal.msg = i
                           /\ lastSeal.final
                           /\ lastSeal.text = lastSeal.sent)

\* C2: every logical message of the device gets exactly one
\* process_user_message thread: eventually one, never more than one.
C2_ExactlyOnce ==
    /\ \A i \in 1..MaxMsgs : (devCount = i) ~> (threads[i] = 1)
    /\ [](\A i \in 1..MaxMsgs : threads[i] <= 1)

C4_MoreChunkRead ==
    [][(/\ PollerStep
        /\ AtPoll /\ ~in_startup(startup_counter)
        /\ devPhase = "wait" /\ status = MORE /\ length > 0
        /\ hdrAge >= DEBOUNCE_TIME
        /\ length = last_data_length /\ ~too_early)
       => (/\ mem'[OUTGOING_MSG_ADDR] = 0
           /\ full_message' = strip_junk(full_message \o chunk_read)
           /\ UNCHANGED sealVars)]_vars

\* C5: while a dispatched message's status byte has not been reset to NONE,
\* no poll iteration reads the outbound mailbox.
C5_NoReadBeforeReset == [][pendingReset => ~ReadsOutbound]_vars


\* addresses written by check_for_messages (lines 486 and 526)
PollerWrites == {OUTGOING_MSG_ADDR, MESSAGE_STATUS_ADDR}

\* C6: no write of a send lands on an address the poller writes, so a send
\* leaves the outbound length and status bytes as they are while a device
\* chunk is waiting in the outbound mailbox.
C6_DisjointWrites ==
    [][(SenderStep /\ length > 0)
          => \A a \in PollerWrites : mem'[a] = mem[a]]_vars


Retryable(r) == should_retry(client, r)

AllRetryable == \A k \in 1..Len(replies) : Retryable(replies[k])

\* C7: two retryable errors, then success: exactly 3 requests, sleeps of
\* 1000 ms and 2000 ms (the second twice the first), and the call returns.
C7_TwoRetriesThenOk ==
    /\ (Len(replies) >= 2 /\ Retryable(replies[1]) /\ Retryable(replies[2]))
          => (/\ SubSeq(sleeps, 1, 2) = <<1000, 2000>>
              /\ sleeps[2] >= 2 * sleeps[1]
              /\ (Len(replies) = 2 => clientPc = "call" /\ Len(sleeps) = 2))
    /\ (Len(replies) >= 3 /\ Retryable(replies[1]) /\ Retryable(replies[2])
           /\ replies[3] = "ok")
          => (/\ clientPc = "returned"
              /\ Len(replies) = 3
              /\ sleeps = <<1000, 2000>>)

C7_Witness == replies = <<"429", "429", "ok">> /\ clientPc = "returned"

\* C8: a non-retryable error (auth failure, plain body) on the first request:
\* exactly 1 request, terminal error, no backoff sleep.
C8_FailsAtOnce ==
    (Len(replies) >= 1 /\ replies[1] = "401")
       => (clientPc = "raised" /\ Len(replies) = 1 /\ sleeps = <<>>)

\* C9: retryable errors only: at most 3 retries after the first request,
\* sleeps of 1000, 2000 and 4000 ms, then the terminal error; the retry
\* counter never exceeds 3.
C9_RetryBudget ==
    /\ retry_count <= 3
    /\ AllRetryable =>
          /\ Len(replies) <= 4
          /\ sleeps = SubSeq(<<1000, 2000, 4000>>, 1, Min(Len(replies), 3))
          /\ retry_count = Len(sleeps)
          /\ (Len(replies) = 4 <=> clientPc = "raised")

C9_Witness == Len(replies) = 4 /\ AllRetryable /\ clientPc = "raised"

LastN(q, n) == SubSeq(q, Len(q) - Min(n, Len(q)) + 1, Len(q))

\* C10: the history holds at most 10 turns and equals the last min(n, 10)
\* appended turns in order; after the 11th append it holds turns 2 to 11.
C10_LastTenTurns ==
    /\ Len(conversation_history) <= 10
    /\ conversation_history = LastN(appended, 10)
    /\ Len(appended) = 11 =>
          [k \in 1..10 |-> conversation_history[k].content] = [k \in 1..10 |-> k + 1]

C10_Witness == Len(appended) = 11 /\ Len(conversation_history) = 10


C18_ErrorSurfaced ==
    exchange.pc # "idle" /\ exchange.raised =>
        /\ LET h == conversation_history
               h0 == exchange.h0
           IN  /\ Len(h) = Min(Len(h0) + 1, MAX_HISTORY_LENGTH)
               /\ h[Len(h)] = [role |-> "user", content |-> exchange.message]
               /\ \A k \in 1..(Len(h) - 1) : h[k] = h0[k + Len(h0) + 1 - Len(h)]
        /\ exchange.pc = "done" =>
              /\ Len(exchange.sends) = 1
              /\ exchange.sends[1].chan = "resp"
              /\ Len(exchange.sends[1].text) >= Len(ERROR_PREFIX)
              /\ SubSeq(exchange.sends[1].text, 1, Len(ERROR_PREFIX)) = ERROR_PREFIX
              /\ Len(exchange.sends[1].text) <= 200
              /\ exchange.mailbox["think"] = <<>>
              /\ ~exchange.sends[1].failed =>
                    /\ Len(exchange.mailbox["resp"]) = Len(exchange.sends[1].text) + 1
                    /\ exchange.mailbox["resp"][1] = Len(exchange.sends[1].text)
                    /\ SubSeq(exchange.mailbox["resp"], 2, Len(ERROR_PREFIX) + 1)
                          = ERROR_PREFIX
                    /\ exchange.status["resp"] = NONE

C18_Witness ==
    /\ exchange.pc = "done"
    /\ exchange.raised
    /\ client = "llama"
    /\ retry_count = max_retries
    /\ Len(exchange.h0) = MAX_HISTORY_LENGTH
    /\ ~exchange.sends[1].failed
    /\ Len(exchange.sends[1].text) = 200
    /\ Len(exchange.mailbox["resp"]) = 201

\* the text process_user_message had before it shortened it for the send
Unshortened(send) ==
    IF send.chan = "think" THEN exchange.thinking
    ELSE ERROR_PREFIX \o sanitize_for_c64(exchange.e)

\* C21: a thinking text or an error message handed to the sender is at most
\* 200 characters long: the text itself when it has 200 characters or fewer,
\* else its first 197 characters followed by "...".
C21_CappedAt200 ==
    \A i \in DOMAIN exchange.sends :
       LET send == exchange.sends[i]
           text == Unshortened(send)
       IN  (send.chan = "think" \/ exchange.raised) =>
              /\ Len(send.text) <= 200
              /\ Len(text) <= 200 => send.text = text
              /\ Len(text) > 200 =>
                     send.text = SubSeq(text, 1, 197) \o <<46, 46, 46>>

C21_Witness ==
    /\ exchange.pc = "done"
    /\ Len(exchange.sends) = 2
    /\ exchange.sends[1].chan = "think"
    /\ Len(exchange.thinking) = 201
    /\ Len(exchange.sends[1].text) = 200
    /\ exchange.sends[1].text[198] = 46

\* C19: a send during which the transport failed gives its caller a result
\* that differs from the result of a send that went through, and no message
\* is sent twice.
C19_FailureSurfaced ==
    /\ \A i \in DOMAIN exchange.sends, j \in DOMAIN exchange.sends :
          (exchange.sends[i].failed /\ ~exchange.sends[j].failed)
             => exchange.sends[i].result # exchange.sends[j].result
    /\ \A i \in DOMAIN exchange.sends, j \in DOMAIN exchange.sends :
          i # j => exchange.sends[i].chan # exchange.sends[j].chan

\* C20: every non-empty text gets a chunk whose length byte counts the
\* payload bytes that follow it and is at most 240; a message longer than 240
\* characters after sanitizing and uppercasing is cut to its first 240.
C20_LengthByte ==
    /\ (codec.pc = "returned") => codec.text = <<>>
    /\ (codec.pc \in {"chunk", "decoded"}) =>
          /\ codec.chunk[1] = Len(codec.chunk) - 1
          /\ codec.chunk[1] <= 240
          /\ Tail(codec.chunk) = SubSeq(codec.message, 1, Min(Len(codec.message), 240))

C20_Witness ==
    /\ codec.pc = "chunk"
    /\ Len(codec.text) = 241
    /\ Len(codec.message) = 482
    /\ Len(codec.chunk) = 241

\* the text holds neither tag
MarkerFree(s) == find(s, OPEN_TAG, 1) = 0 /\ find(s, CLOSE_TAG, 1) = 0

\* the parts of a text of the shape "<think>A</think>B"
SpanA(r) == SubSeq(r, Len(OPEN_TAG) + 1, find(r, CLOSE_TAG, Len(OPEN_TAG) + 1) - 1)
SpanB(r) == SubSeq(r, find(r, CLOSE_TAG, Len(OPEN_TAG) + 1) + Len(CLOSE_TAG), Len(r))

OneSpan(r) ==
    /\ at(r, 1, OPEN_TAG)
    /\ find(r, CLOSE_TAG, Len(OPEN_TAG) + 1) # 0
    /\ MarkerFree(SpanA(r))
    /\ MarkerFree(SpanB(r))

\* C12 as stated: for "<think>A</think>B" with A and B free of markers the
\* thinking is A and the answer is B.
C12_AnswerAsWritten ==
    (think.pc = "returned" /\ OneSpan(think.response_text)) =>
        /\ think.thinking_text = [none |-> FALSE, text |-> SpanA(think.response_text)]
        /\ think.cleaned_response = SpanB(think.response_text)

\* C12, amended: for "<think>A</think>B" with A and B free of markers the
\* thinking is A as written and the answer is B without its leading and
\* trailing whitespace.
C12_AnswerTrimmed ==
    (think.pc = "returned" /\ OneSpan(think.response_text)) =>
        /\ think.thinking_text = [none |-> FALSE, text |-> SpanA(think.response_text)]
        /\ think.cleaned_response = strip(SpanB(think.response_text))

C12_Witness ==
    /\ think.pc = "returned"
    /\ think.response_text =
         OPEN_TAG \o <<32, 65, 32>> \o CLOSE_TAG \o <<32, 97, 110, 115, 119, 101, 114, 32>>
    /\ think.thinking_text = [none |-> FALSE, text |-> <<32, 65, 32>>]
    /\ think.cleaned_response = <<97, 110, 115, 119, 101, 114>>

\* the texts before each closing tag, from the previous closing tag on
RECURSIVE ClosedSegments(_, _)
ClosedSegments(r, pos) ==
    LET p == find(r, CLOSE_TAG, pos)
    IN  IF p = 0 THEN <<>>
        ELSE <<SubSeq(r, pos, p - 1)>> \o ClosedSegments(r, p + Len(CLOSE_TAG))

\* the text after the last closing tag
RECURSIVE AfterClosers(_, _)
AfterClosers(r, pos) ==
    LET p == find(r, CLOSE_TAG, pos)
    IN  IF p = 0 THEN SubSeq(r, pos, Len(r))
        ELSE AfterClosers(r, p + Len(CLOSE_TAG))

\* the fragments without surrounding whitespace, the blank ones left out
Trimmed(fragments) ==
    SelectSeq([k \in DOMAIN fragments |-> strip(fragments[k])],
              LAMBDA f : f # <<>>)

OnlyClosers(r) == find(r, OPEN_TAG, 1) = 0 /\ find(r, CLOSE_TAG, 1) # 0

\* C13 as stated: with closing tags only, the text before each closing tag
\* is a thinking fragment and the text after the last one is the answer.
C13_SegmentsAsWritten ==
    (think.pc = "returned" /\ OnlyClosers(think.response_text)) =>
        /\ think.thinking_text = thinking_text(ClosedSegments(think.response_text, 1))
        /\ think.cleaned_response = AfterClosers(think.response_text, 1)

\* C13, amended: with closing tags only, the text before each closing tag,
\* without its surrounding whitespace and unless it is blank, is a thinking
\* fragment, and the answer is the text after the last closing tag without
\* its surrounding whitespace.
C13_SegmentsTrimmed ==
    (think.pc = "returned" /\ OnlyClosers(think.response_text)) =>
        /\ think.thinking_text =
              thinking_text(Trimmed(ClosedSegments(think.response_text, 1)))
        /\ think.cleaned_response = strip(AfterClosers(think.response_text, 1))

C13_Witness ==
    /\ think.pc = "returned"
    /\ think.response_text = <<32>> \o CLOSE_TAG \o <<89, 32>> \o CLOSE_TAG \o <<90>>
    /\ think.thinking_text = [none |-> FALSE, text |-> <<89>>]
    /\ think.cleaned_response = <<90>>

\* the texts after each opening tag, up to the next opening tag or the end
RECURSIVE OpenedSegments(_, _)
OpenedSegments(r, pos) ==
    LET i == find(r, OPEN_TAG, pos)
        n == find(r, OPEN_TAG, i + Len(OPEN_TAG))
    IN  IF i = 0 THEN <<>>
        ELSE IF n = 0 THEN <<SubSeq(r, i + Len(OPEN_TAG), Len(r))>>
        ELSE <<SubSeq(r, i + Len(OPEN_TAG), n - 1)>> \o OpenedSegments(r, n)

BeforeOpeners(r) == SubSeq(r, 1, find(r, OPEN_TAG, 1) - 1)

OnlyOpeners(r) == find(r, OPEN_TAG, 1) # 0 /\ find(r, CLOSE_TAG, 1) = 0

\* C14 as stated: with opening tags only, the text from each opening tag to
\* the next one or to the end is a thinking fragment and the text before
\* the first opening tag is the answer.
C14_SegmentsAsWritten ==
    (think.pc = "returned" /\ OnlyOpeners(think.response_text)) =>
        /\ think.thinking_text = thinking_text(OpenedSegments(think.response_text, 1))
        /\ think.cleaned_response = BeforeOpeners(think.response_text)

\* C14, amended: with opening tags only, the text from each opening tag to
\* the next one or to the end, without its surrounding whitespace and unless
\* it is blank, is a thinking fragment, and the answer is the text before
\* the first opening tag without its surrounding whitespace.
C14_SegmentsTrimmed ==
    (think.pc = "returned" /\ OnlyOpeners(think.response_text)) =>
        /\ think.thinking_text =
              thinking_text(Trimmed(OpenedSegments(think.response_text, 1)))
        /\ think.cleaned_response = strip(BeforeOpeners(think.response_text))

C14_Witness ==
    /\ think.pc = "returned"
    /\ think.response_text =
         <<32, 104, 105, 32>> \o OPEN_TAG \o <<88>> \o OPEN_TAG \o <<32, 65, 32>>
    /\ think.thinking_text = [none |-> FALSE, text |-> <<88, 32, 65>>]
    /\ think.cleaned_response = <<104, 105>>

\* C15 as stated: a text without tags gives no thinking and comes back
\* character for character.
C15_AnswerAsWritten ==
    (think.pc = "returned" /\ MarkerFree(think.response_text)) =>
        /\ think.thinking_text = NoThinking
        /\ think.cleaned_response = think.response_text

\* C15, amended: a text without tags gives no thinking and comes back
\* without its leading and trailing whitespace, otherwise unchanged.
C15_AnswerTrimmed ==
    (think.pc = "returned" /\ MarkerFree(think.response_text)) =>
        /\ think.thinking_text = NoThinking
        /\ think.cleaned_response = strip(think.response_text)

C15_Witness ==
    /\ think.pc = "returned"
    /\ think.response_text = <<32, 104, 105, 32>>
    /\ think.thinking_text = NoThinking
    /\ think.cleaned_response = <<104, 105>>

\* C16: whatever the text, unbalanced, nested or repeated tags included, the
\* answer the extraction returns holds neither tag.
C16_NoTagInAnswer ==
    think.pc = "returned" => MarkerFree(think.cleaned_response)

\* halves of an opening tag around an empty span: removing the span brings
\* the halves together
C16_Witness ==
    /\ think.pc = "returned"
    /\ think.response_text =
         <<60, 116, 104, 105>> \o OPEN_TAG \o CLOSE_TAG \o <<110, 107, 62>>
    /\ think.thinking_text = [none |-> FALSE, text |-> <<>>]
    /\ think.cleaned_response = <<>>

\* a text with an orphaned closing tag, then a well-formed span, then an
\* orphaned opening tag
Mixed(x, a, y, b) ==
    x \o CLOSE_TAG \o OPEN_TAG \o a \o CLOSE_TAG \o y \o OPEN_TAG \o b

\* C17: the thinking is the fragments of the well-formed spans of the
\* original text, then those of the orphaned closing tags, then those of the
\* orphaned opening tags, joined by single spaces; in "X</think><think>A
\* </think>Y<think>B" the thinking is "A X B" and the answer is "Y".
C17_PassOrder ==
    think.pc = "returned" =>
        /\ think.proper = fragments_of(think_pattern(think.response_text, 1))
        /\ think.thinking_fragments = think.proper \o think.ends \o think.starts
        /\ think.thinking_text = thinking_text(think.thinking_fragments)
        /\ \A x \in Words, a \in Words, y \in Words, b \in Words :
              think.response_text = Mixed(x, a, y, b) =>
                 /\ think.thinking_text.text = a \o <<32>> \o x \o <<32>> \o b
                 /\ think.cleaned_response = y

C17_Witness ==
    /\ think.pc = "returned"
    /\ think.response_text = Mixed(<<88>>, <<97, 32, 98>>, <<88>>, <<88>>)
    /\ think.thinking_text.text = <<97, 32, 98, 32, 88, 32, 88>>
    /\ think.cleaned_response = <<88>>

\* C22: when the latest poll observed length 0 in the outbound mailbox, the
\* accumulator is empty.
C22_EmptyResetsAccumulator ==
    obsLen = 0 => full_message = <<>>

\* C23: a poll iteration in which a transport call raises leaves the
\* accumulator empty.
C23_AbandonedOnError ==
    [][faults' = faults + 1 => full_message' = <<>>]_vars

\* C24: a poll iteration in which a transport call raises ends at the top
\* of the loop with the cooldown of TIMEOUT_BETWEEN_CHECKS ahead of it.
C24_ErrorKeepsPolling ==
    [][faults' = faults + 1 =>
          /\ pollPc' = "poll"
          /\ sleepLeft' = TIMEOUT_BETWEEN_CHECKS]_vars

\* a message was dispatched by a poll that came after a transport error: the
\* chunk kept by the failed iteration is in front of it
C24_Witness ==
    /\ faults > 0
    /\ lastSeal.msg # 0
    /\ Len(lastSeal.text) > Len(lastSeal.sent)
    /\ pollPc = "poll"

RECURSIVE SumOver(_, _)
SumOver(f, S) ==
    IF S = {} THEN 0
    ELSE LET x == CHOOSE y \in S : TRUE IN f[x] + SumOver(f, S \ {x})

\* C25: every dispatch of a message that is not a command has started a
\* thread of its own, whatever the threads started earlier are doing, and
\* the poller's sleep is never longer than CHECK_INTERVAL.
C25_PollingNotStalled ==
    /\ Len(exch) = SumOver(threads, DOMAIN threads)
    /\ sleepLeft <= CHECK_INTERVAL

\* the second message was sealed and dispatched while the generation
\* request of the first was still under way
C25_Witness ==
    /\ Len(exch) = 2
    /\ exch[1].pc = "generate"
    /\ exch[2].pc = "generate"
    /\ threads[1] = 1
    /\ threads[2] = 1
    /\ lastSeal.msg = 2

C27_StartupGrace ==
    [][startup_counter > 0 =>
          /\ startup_counter' \in {startup_counter, startup_counter - 1}
          /\ UNCHANGED <<session, obsLen, full_message, last_data_length,
                         pollPc, sealVars, exch>>
          /\ mem[OUTGOING_MSG_ADDR] # 0 => mem'[OUTGOING_MSG_ADDR] # 0
          /\ startup_counter' # startup_counter =>
                mem' = mem /\ sleepLeft' = CHECK_INTERVAL]_vars

\* an iteration of the grace period has just run while the outbound mailbox
\* held a nonzero length byte
C27_Witness ==
    /\ startup_counter > 0
    /\ startup_counter < STARTUP_CYCLES
    /\ sleepLeft = CHECK_INTERVAL
    /\ mem[OUTGOING_MSG_ADDR] # 0
    /\ lenAge >= 1
    /\ obsLen = -1
    /\ exch = <<>>

\* C28: while the poller sleeps between two iterations the session it
\* opened is closed, whichever path the iteration took: debounce restart,
\* debounce wait, chunk read, seal, empty mailbox or error.
C28_ClosedBeforeSleep == sleepLeft > 0 => session = "closed"

\* how often the text t stands in the text s
occurrences(t, s) == Cardinality({p \in 1..Len(s) : at(s, p, t)})

\* C29: the request of an exchange holds the conversation history as it was
\* before the exchange, followed by the new user turn, and the new user
\* text stands in it exactly once: as one turn of the message list of
\* ClaudeApiClient, as one stretch of the prompt of LlamaCppClient.
C29_UserTextOnce ==
    ~exchange.request.none =>
        IF client = "claude"
          THEN /\ exchange.request.messages =
                     add_message_to_history(exchange.h0, "user", exchange.message)
               /\ Cardinality({k \in DOMAIN exchange.request.messages :
                                  exchange.request.messages[k].content
                                     = exchange.message}) = 1
          ELSE /\ exchange.request.prompt =
                     format_conversation(exchange.h0,
                         formatted_message(exchange.message_counter,
                                           exchange.message))
               /\ occurrences(exchange.message, exchange.request.prompt) = 1

\* C29 for the message list alone
C29_MessageListOnce ==
    (~exchange.request.none /\ client = "claude") =>
        /\ exchange.request.messages =
              add_message_to_history(exchange.h0, "user", exchange.message)
        /\ Cardinality({k \in DOMAIN exchange.request.messages :
                           exchange.request.messages[k].content
                              = exchange.message}) = 1

\* C30: the response LlamaCppClient.send_message returns is the content of
\* the lines of the attempt that completed, in the order they arrived, up
\* to the line with the stop flag; content received in an earlier attempt
\* that failed is not part of it.
C30_CompletedAttemptOnly ==
    stream.pc = "returned" => stream.full_response = stream.got

\* C30 for a call none of whose attempts failed after receiving content
C30_WithoutBrokenStream ==
    (stream.pc = "returned" /\ Concat(stream.failed) = <<>>) =>
        stream.full_response = stream.got

\* the chunk of a send on the channel stands whole at the channel's address
ChunkWhole(m, chan) ==
    LET bytes == message_bytes(ChannelText(chan))
    IN  read_memory(m, ChannelAddr(chan), ChannelAddr(chan) + Len(bytes)) = bytes

\* C31: a send opens its session and sets the channel's length byte to 0,
\* then writes the whole chunk, length byte and payload, in one write, then
\* sets the channel's status byte to NONE and closes its session, in this
\* order and with no other write; so whenever the length byte of a channel
\* is not 0 the payload behind it is whole.
C31_SendOrder ==
    [][/\ \A i \in DOMAIN exch :
            exch'[i] # exch[i] =>
               LET address == ChannelAddr(exch[i].chan)
                   bytes == message_bytes(ChannelText(exch[i].chan))
               IN  CASE exch[i].pc = "clear" ->
                          /\ exch'[i] = [exch[i] EXCEPT !.pc = "write", !.open = TRUE]
                          /\ mem' = write_memory(mem, address, <<0>>)
                     [] exch[i].pc = "write" ->
                          /\ exch[i].open
                          /\ exch'[i] = [exch[i] EXCEPT !.pc = "status"]
                          /\ mem' = write_memory(mem, address, bytes)
                     [] exch[i].pc = "status" ->
                          /\ exch[i].open
                          /\ ~exch'[i].open
                          /\ exch'[i].pc \in {"clear", "done"}
                          /\ mem' = write_memory(mem, ChannelStatus(exch[i].chan),
                                                 <<NONE>>)
                     [] OTHER -> mem' = mem /\ ~exch[i].open /\ ~exch'[i].open
       /\ \A chan \in {"think", "resp"} :
            mem'[ChannelAddr(chan)] # 0 => ChunkWhole(mem', chan)]_vars

\* two sends on the response channel have each cleared the length byte and
\* written their chunk, and neither has reset the status byte yet
C31_Witness ==
    /\ Len(exch) = 2
    /\ exch[1].pc = "status" /\ exch[1].chan = "resp" /\ exch[1].open
    /\ exch[2].pc = "status" /\ exch[2].chan = "resp"
    /\ mem[INCOMING_MSG_ADDR] = 2
    /\ mem[INCOMING_MSG_ADDR + 1] = 79
    /\ mem[INCOMING_MSG_ADDR + 2] = 75

\* C32: ClaudeApiClient.send_message issues at most max_retries + 1
\* requests, and a request after which the call neither returns nor raises
\* is followed by one more on the retry counter and a sleep of the backoff
\* delay.
C32_EveryRetryCounted ==
    [][(client = "claude" /\ Len(replies') > Len(replies)) =>
          /\ Len(replies') <= max_retries + 1
          /\ clientPc' = "call" =>
                /\ retry_count' = retry_count + 1
                /\ sleeps' = Append(sleeps, delay_ms)]_vars

\* C33: once the exchange has written its answer or its error message to
\* the response mailbox, the notice thread of the same sealed message writes
\* nothing to that mailbox.
C33_NoNoticeAfterAnswer ==
    [][(notice.pc # "idle" /\ notice.answered) =>
          (notice'.pc # notice.pc => notice'.box = notice.box)]_vars

\* C34: when two concurrent calls of add_message_to_history have returned,
\* the history holds the last turns appended, in the order of the appends
\* and 10 at most: both new turns are in it.
C34_NoLostAppend ==
    (adders # <<>> /\ \A t \in DOMAIN adders : adders[t].pc = "done") =>
        /\ Len(conversation_history) <= MAX_HISTORY_LENGTH
        /\ conversation_history = last_turns(appended)
        /\ \A t \in DOMAIN adders :
              \E k \in DOMAIN conversation_history :
                 conversation_history[k] = adders[t].message

\* C35: an exchange whose sends all succeed does not end before it has
\* written a chunk, its answer or an "ERROR:" message, to the response
\* mailbox (process_user_message has returned at "done": nothing of the
\* exchange is left to run).
C35_ReplyWritten ==
    (/\ exchange.pc = "done"
     /\ \A k \in DOMAIN exchange.sends : ~exchange.sends[k].failed)
       => /\ Len(exchange.mailbox["resp"]) > 1
          /\ exchange.mailbox["resp"][1] > 0

\* C36: in an exchange with thinking text, nothing is written to the
\* response mailbox before the send of the thinking text has returned; when
\* the send of the answer begins, the send of the thinking text is the one
\* send that has been made, it was made on the thinking channel, and unless
\* the transport failed the thinking mailbox holds its chunk and the status
\* byte of the thinking channel is NONE.
C36_ThinkingBeforeAnswer ==
    (exchange.pc # "idle" /\ exchange.thinking # <<>>) =>
        /\ exchange.pc = "thinking" => exchange.mailbox["resp"] = <<>>
        /\ exchange.pc \in {"assistant", "answer", "done"} =>
              /\ Len(exchange.sends) >= 1
              /\ exchange.sends[1].chan = "think"
              /\ exchange.sends[1].text = shorten(exchange.thinking)
              /\ \A k \in 2..Len(exchange.sends) : exchange.sends[k].chan = "resp"
        /\ (exchange.pc = "answer" /\ exchange.step = "entry") =>
              /\ Len(exchange.sends) = 1
              /\ exchange.mailbox["resp"] = <<>>
              /\ ~exchange.sends[1].failed =>
                    /\ exchange.mailbox["think"] = chunk_of(exchange.sends[1].text)
                    /\ exchange.status["think"] = NONE

\* the answer has been written after the thinking text
C36_Witness ==
    /\ exchange.pc = "done"
    /\ exchange.thinking = <<116>>
    /\ Len(exchange.sends) = 2
    /\ exchange.mailbox["think"] = <<1, 84>>
    /\ exchange.mailbox["resp"] = <<2, 79, 75>>

\* C37: the iteration that seals a message whose text starts with '/'
\* starts no thread of process_user_message, so no generation request is
\* made and the conversation history stays as it is; it zeroes the length
\* byte and empties the accumulator, and, no transport call failing, its last
\* step resets the status byte to NONE.
C37_CommandNotGenerated ==
    [][/\ (seals' # seals /\ Len(lastSeal'.text) > 0 /\ lastSeal'.text[1] = SLASH) =>
             /\ exch' = exch
             /\ threads' = threads
             /\ UNCHANGED <<conversation_history, clientVars, exchange>>
             /\ mem'[OUTGOING_MSG_ADDR] = 0
             /\ full_message' = <<>>
             /\ pollPc' = "reset"
       /\ (pollPc = "reset" /\ pollPc' # "reset") =>
             /\ mem'[MESSAGE_STATUS_ADDR] = NONE
             /\ exch' = exch
             /\ full_message' = <<>>]_vars

\* a command was sealed and acknowledged, and no thread was started
C37_Witness ==
    /\ lastSeal.msg = 1
    /\ lastSeal.text = <<SLASH>>
    /\ seals[1] = 1
    /\ threads[1] = 0
    /\ exch = <<>>
    /\ pollPc = "poll"
    /\ ~pendingReset
    /\ full_message = <<>>
    /\ mem[OUTGOING_MSG_ADDR] = 0
    /\ mem[MESSAGE_STATUS_ADDR] = NONE

\* C38: a call of send_message_to_c64 with an empty message returns without
\* a transport operation: the step that handles it leaves the length byte,
\* the payload and the status byte of every channel as they were, records no
\* send, and the call never reaches the steps that open a session.
C38_EmptyMessageNoTransport ==
    [][(exchange.pc # "idle" /\ exchange.step = "entry" /\ exchange.text = <<>>
        /\ exchange' # exchange) =>
          /\ exchange'.mailbox = exchange.mailbox
          /\ exchange'.status = exchange.status
          /\ exchange'.sends = exchange.sends
          /\ exchange'.step = "none"]_vars

\* the empty answer of the llama client was handed to send_message_to_c64,
\* and the response channel is as it was before the exchange
C38_Witness ==
    /\ exchange.pc = "done"
    /\ client = "llama"
    /\ exchange.answer = <<>>
    /\ exchange.text = <<>>
    /\ ~exchange.raised
    /\ exchange.mailbox["resp"] = <<>>
    /\ exchange.status["resp"] = LAST
    /\ \A k \in DOMAIN exchange.sends : exchange.sends[k].chan # "resp"

TypeOK ==
    /\ mem \in [Addrs -> 0..255]
    /\ sleepLeft \in 0..CHECK_INTERVAL
    /\ last_change_age \in 0..DEBOUNCE_TIME
    /\ devCount \in 0..MaxMsgs

=============================================================================
